---- MODULE Spec2Model ----
(***************************************************************************)
(* In-memory canonical chain state of crates/chain-state/src/in_memory.rs: *)
(* InMemoryState (blocks, numbers, pending), the CanonicalInMemoryState    *)
(* facade (update_chain, remove_persisted_blocks, the queries) and the     *)
(* BlockState parent chain (anchor, parent_state_chain, chain).            *)
(* Spec and SpecNew run the calls one at a time, SpecShared runs them from *)
(* several threads a lock and a loop iteration at a time, SpecFlow adds    *)
(* the canonical head and the notification channel, SpecChannel lets the   *)
(* receivers of the channel read, SpecOnce makes one update_chain and      *)
(* remembers its transition, SpecPersist makes a row of                    *)
(* remove_persisted_blocks calls and remembers them, SpecInfo adds the     *)
(* chain-info setters and hooks, and SpecReceipts calls                    *)
(* executed_block_receipts on any receipts.  SpecPeers is the InactivePeers *)
(* stream of crates/net/network/src/transactions/inactive_peers.rs.        *)
(*                                                                         *)
(* A block is identified by its hash.  The universe of blocks is a binary  *)
(* tree of forks rooted in the disk block 0: the parent of the block with  *)
(* hash h is the block with hash h \div 2 and its number is its depth, so  *)
(* every header is well formed (number = parent's number + 1) and two      *)
(* blocks of one number have different hashes.                             *)
(***************************************************************************)
EXTENDS Integers, Sequences, FiniteSets, TLC

VARIABLES
    blocks,     \* InMemoryState.blocks: hash -> BlockState
    numbers,    \* InMemoryState.numbers: number -> hash
    pending,    \* InMemoryState.pending: Option<BlockState>
    last,       \* history: the last call made on the facade
    locks,      \* the three RwLocks: their writer and their readers
    threads,    \* the call each thread is making and its position in it
    applied,    \* history: the hash maps left by the mutations applied so far
    initial,    \* history: the state the concurrent calls started from
    canonical_head,     \* ChainInfoTracker: the header set as canonical head
    receivers,  \* the unread notifications of each subscribed receiver
    sent,       \* history: the number of notifications the channel has taken
    stamps,     \* history: the send number of each unread notification
    received,   \* history: the send number of the last notification received
    receipt_vec,        \* Receipts.receipt_vec of a block's ExecutionOutcome
    debug_assertions,   \* whether the build compiles debug_assert!
    returned,   \* what executed_block_receipts() returned
    chain_info, \* ChainInfoTracker: safe and finalized header, hook timestamps
    last_activity,      \* InactivePeers.last_activity: peer -> time since then
    inactive_peers,     \* InactivePeers.inactive_peers: VecDeque<PeerId>
    is_syncing,         \* what NetworkHandle::is_syncing() returns
    interval_ready      \* whether the next tick of the interval has completed

vars == <<blocks, numbers, pending, last, locks, threads, applied, initial,
          canonical_head, receivers, sent, stamps, received,
          receipt_vec, debug_assertions, returned, chain_info,
          last_activity, inactive_peers, is_syncing, interval_ready>>

\* the state of the callers and of the locks
calls == <<locks, threads, applied, initial>>

\* the chain-info tracker and the notification channel
flow == <<canonical_head, receivers>>

\* the history of the notification channel
deliveries == <<sent, stamps, received>>

\* a call of BlockState::executed_block_receipts
receipts_call == <<receipt_vec, debug_assertions, returned>>

\* the rest of the chain-info tracker, and the stream of inactive peers
elsewhere ==
    <<chain_info, last_activity, inactive_peers, is_syncing, interval_ready>>

\* what a call on the shared facade leaves alone
outside == <<flow, deliveries, receipts_call, elsewhere>>

(***************************************************************************)
(* Bounds.                                                                 *)
(***************************************************************************)
NumBlocks == 4      \* hashes 1..NumBlocks
MaxNew == 2         \* longest `new` list of a transition
MaxOld == 1         \* longest `old` list of a Reorg

(***************************************************************************)
(* Blocks.                                                                 *)
(***************************************************************************)
Hashes == 1..NumBlocks

RECURSIVE NumberOf(_)
NumberOf(h) == IF h = 0 THEN 0 ELSE 1 + NumberOf(h \div 2)

ExecutedBlock(h) ==
    [hash |-> h, number |-> NumberOf(h), parent_hash |-> h \div 2]

Blocks == {ExecutedBlock(h) : h \in Hashes}

MaxNumber == NumberOf(NumBlocks)

\* SealedBlock::parent_num_hash, as used by BlockState::anchor
parent_num_hash(block) ==
    [number |-> block.number - 1, hash |-> block.parent_hash]

None == [none |-> TRUE]

\* the call panicked: unwrap() or expect() on None, or a failed assertion
Panic == [panic |-> TRUE]

(***************************************************************************)
(* BlockState: a block and its optional, owned parent BlockState.          *)
(***************************************************************************)
BlockState_new(block) == [block |-> block, parent |-> None]

with_parent(block, parent) == [block |-> block, parent |-> parent]

hash(state) == state.block.hash

number(state) == state.block.number

\* faulty variant: the parent chain is not followed
anchor_of_own_parent(state) == parent_num_hash(state.block)

RECURSIVE anchor(_)
anchor(state) ==
    IF state.parent # None
    THEN anchor(state.parent)
    ELSE parent_num_hash(state.block)

\* faulty variant: parents.push(parent) in place of parents.insert(0, parent)
RECURSIVE parent_state_chain_pushed(_, _)
parent_state_chain_pushed(parents, current) ==
    IF current = None
    THEN parents
    ELSE parent_state_chain_pushed(Append(parents, current), current.parent)

\* the while loop of parent_state_chain: parents.insert(0, parent)
RECURSIVE parent_state_chain_loop(_, _)
parent_state_chain_loop(parents, current) ==
    IF current = None
    THEN parents
    ELSE parent_state_chain_loop(<<current>> \o parents, current.parent)

parent_state_chain(state) == parent_state_chain_loop(<<>>, state.parent)

chain(state) == Append(parent_state_chain(state), state)

(***************************************************************************)
(* HashMap helpers.                                                        *)
(***************************************************************************)
EmptyMap == [k \in {} |-> None]

MapInsert(m, k, v) == [x \in DOMAIN m \cup {k} |-> IF x = k THEN v ELSE m[x]]

MapRemove(m, k) == [x \in DOMAIN m \ {k} |-> m[x]]

MapGet(m, k) == IF k \in DOMAIN m THEN m[k] ELSE None

(***************************************************************************)
(* InMemoryState queries.  Each takes the maps it reads, so that it can be *)
(* asked of the state a call produces as well as of the current state.     *)
(***************************************************************************)
\* self.blocks.read().get(&hash).cloned()
state_by_hash(b, h) == MapGet(b, h)

\* self.numbers.read().get(&number).and_then(|hash| self.blocks.read().get(hash).cloned())
state_by_number(b, n, num) ==
    IF num \in DOMAIN n THEN MapGet(b, n[num]) ELSE None

\* faulty variant: min_by_key in place of max_by_key
head_state_min(b, n) ==
    IF DOMAIN n = {}
    THEN None
    ELSE LET min == CHOOSE x \in DOMAIN n : \A k \in DOMAIN n : x <= k
         IN  MapGet(b, n[min])

\* numbers.iter().max_by_key(number).and_then(|(_, hash)| blocks.get(hash).cloned())
head_state(b, n) ==
    IF DOMAIN n = {}
    THEN None
    ELSE LET max == CHOOSE x \in DOMAIN n : \A k \in DOMAIN n : k <= x
         IN  MapGet(b, n[max])

\* faulty variant: the stored state is handed out with its parent link
pending_state_cloned(p) == p

\* pending.as_ref().map(|state| Arc::new(BlockState::new(state.block.clone())))
pending_state(p) ==
    IF p = None THEN None ELSE BlockState_new(p.block)

\* faulty variant: the chain is handed over newest first
state_provider_newest_first(b, h) ==
    IF state_by_hash(b, h) # None
    THEN LET c == chain(state_by_hash(b, h))
         IN  [i \in 1..Len(c) |-> c[Len(c) + 1 - i].block]
    ELSE <<>>

\* in_memory of the MemoryOverlayStateProvider built by state_provider
state_provider(b, h) ==
    IF state_by_hash(b, h) # None
    THEN LET c == chain(state_by_hash(b, h))
         IN  [i \in 1..Len(c) |-> c[i].block]
    ELSE <<>>

(***************************************************************************)
(* update_blocks                                                           *)
(***************************************************************************)
\* faulty variant: the removal loop forgets blocks.remove(&hash)
RECURSIVE remove_reorged_numbers_only(_, _, _)
remove_reorged_numbers_only(b, n, reorged) ==
    IF reorged = <<>>
    THEN [blocks |-> b, numbers |-> n]
    ELSE remove_reorged_numbers_only(b, MapRemove(n, Head(reorged).number),
                                     Tail(reorged))

\* faulty variant: the removal loop forgets numbers.remove(&number)
RECURSIVE remove_reorged_blocks_only(_, _, _)
remove_reorged_blocks_only(b, n, reorged) ==
    IF reorged = <<>>
    THEN [blocks |-> b, numbers |-> n]
    ELSE remove_reorged_blocks_only(MapRemove(b, Head(reorged).hash), n,
                                    Tail(reorged))

\* for block in reorged { blocks.remove(&hash); numbers.remove(&number); }
RECURSIVE remove_reorged(_, _, _)
remove_reorged(b, n, reorged) ==
    IF reorged = <<>>
    THEN [blocks |-> b, numbers |-> n]
    ELSE LET block == Head(reorged)
         IN  remove_reorged(MapRemove(b, block.hash),
                            MapRemove(n, block.number),
                            Tail(reorged))

\* faulty variant: the block is inserted without looking up its parent
insert_block_without_parent(b, n, block) ==
    LET block_state == BlockState_new(block)
    IN  [blocks |-> MapInsert(b, hash(block_state), block_state),
         numbers |-> MapInsert(n, number(block_state), hash(block_state))]

\* faulty variant: a number that is already indexed keeps its entry
insert_block_keeping_number(b, n, block) ==
    LET parent == MapGet(b, block.parent_hash)
        block_state == with_parent(block, parent)
    IN  [blocks |-> MapInsert(b, hash(block_state), block_state),
         numbers |-> IF number(block_state) \in DOMAIN n
                     THEN n
                     ELSE MapInsert(n, number(block_state), hash(block_state))]

\* one iteration of the insertion loop
insert_block(b, n, block) ==
    LET parent == MapGet(b, block.parent_hash)
        block_state == with_parent(block, parent)
    IN  [blocks |-> MapInsert(b, hash(block_state), block_state),
         numbers |-> MapInsert(n, number(block_state), hash(block_state))]

\* for block in new_blocks { ... }
RECURSIVE insert_blocks(_, _, _)
insert_blocks(b, n, new_blocks) ==
    IF new_blocks = <<>>
    THEN [blocks |-> b, numbers |-> n]
    ELSE LET r == insert_block(b, n, Head(new_blocks))
         IN  insert_blocks(r.blocks, r.numbers, Tail(new_blocks))

\* faulty variant: update_blocks forgets pending.take()
update_blocks_keeping_pending(b, n, p, new_blocks, reorged) ==
    LET removed == remove_reorged(b, n, reorged)
        inserted == insert_blocks(removed.blocks, removed.numbers, new_blocks)
    IN  [blocks |-> inserted.blocks, numbers |-> inserted.numbers, pending |-> p]

\* faulty variant: the tip of the new blocks is left in the pending slot
update_blocks_pending_tip(b, n, p, new_blocks, reorged) ==
    LET removed == remove_reorged(b, n, reorged)
        inserted == insert_blocks(removed.blocks, removed.numbers, new_blocks)
    IN  [blocks |-> inserted.blocks, numbers |-> inserted.numbers,
         pending |-> IF new_blocks = <<>>
                     THEN None
                     ELSE BlockState_new(new_blocks[Len(new_blocks)])]

\* faulty variant: after the insertion loop every tracked state is linked
\* again to the state its parent hash resolves to
update_blocks_relinking(b, n, p, new_blocks, reorged) ==
    LET removed == remove_reorged(b, n, reorged)
        inserted == insert_blocks(removed.blocks, removed.numbers, new_blocks)
    IN  [blocks |-> [h \in DOMAIN inserted.blocks |->
                        with_parent(inserted.blocks[h].block,
                                    MapGet(inserted.blocks,
                                           inserted.blocks[h].block.parent_hash))],
         numbers |-> inserted.numbers, pending |-> None]

\* faulty variant: the new blocks are inserted before the old ones are removed
update_blocks_removing_last(b, n, p, new_blocks, reorged) ==
    LET inserted == insert_blocks(b, n, new_blocks)
        removed == remove_reorged(inserted.blocks, inserted.numbers, reorged)
    IN  [blocks |-> removed.blocks, numbers |-> removed.numbers, pending |-> None]

\* the maps and the pending slot after update_blocks(new_blocks, reorged)
update_blocks(b, n, p, new_blocks, reorged) ==
    LET removed == remove_reorged(b, n, reorged)
        inserted == insert_blocks(removed.blocks, removed.numbers, new_blocks)
    IN  [blocks |-> inserted.blocks, numbers |-> inserted.numbers, pending |-> None]

\* faulty variant: the Commit arm leaves the pending slot alone
update_chain_commit_keeping_pending(b, n, p, new_chain) ==
    IF new_chain.op = "commit"
    THEN update_blocks_keeping_pending(b, n, p, new_chain.new, <<>>)
    ELSE update_blocks(b, n, p, new_chain.new, new_chain.old)

\* update_chain: Commit { new } => update_blocks(new, vec![]),
\*               Reorg { new, old } => update_blocks(new, old)
update_chain(b, n, p, new_chain) ==
    IF new_chain.op = "commit"
    THEN update_blocks(b, n, p, new_chain.new, <<>>)
    ELSE update_blocks(b, n, p, new_chain.new, new_chain.old)

\* faulty variant: new.first() in place of new.last()
tip_first(new) == new[1]

\* NewCanonicalChain::tip (new.last().expect("non empty blocks"))
tip(new) == IF new = <<>> THEN Panic ELSE new[Len(new)]

(***************************************************************************)
(* remove_persisted_blocks                                                 *)
(***************************************************************************)
\* faulty variant: the filter keeps number >= persisted_height
retained_blocks_inclusive(b, persisted_height) ==
    {b[h].block : h \in {k \in DOMAIN b : b[k].block.number >= persisted_height}}

\* blocks.drain().map(|(_, b)| b.block.clone()).filter(number > persisted_height)
retained_blocks(b, persisted_height) ==
    {b[h].block : h \in {k \in DOMAIN b : b[k].block.number > persisted_height}}

\* The orders sort_unstable_by_key can leave a drained HashMap in: ascending
\* by number, blocks of one number in any order.
RECURSIVE sorted_by_number(_)
sorted_by_number(S) ==
    IF S = {}
    THEN {<<>>}
    ELSE LET least == {x \in S : \A y \in S : x.number <= y.number}
         IN  UNION {{<<x>> \o rest : rest \in sorted_by_number(S \ {x})} : x \in least}

\* the maps after the re-insertion loop over old_blocks
reinsert_blocks(old_blocks) == insert_blocks(EmptyMap, EmptyMap, old_blocks)

\* faulty variant: each block is linked to the state its parent had before the
\* call, the map is not drained before the parents are looked up
remove_persisted_blocks_stale_parents(b, n, p, persisted_height) ==
    {[blocks |-> [h \in DOMAIN reinsert_blocks(old_blocks).blocks |->
                     with_parent(b[h].block, MapGet(b, b[h].block.parent_hash))],
      numbers |-> reinsert_blocks(old_blocks).numbers,
      pending |-> p] :
        old_blocks \in sorted_by_number(retained_blocks(b, persisted_height))}

\* faulty variant: the pending block is taken, as update_blocks does
remove_persisted_blocks_taking_pending(b, n, p, persisted_height) ==
    {[blocks |-> reinsert_blocks(old_blocks).blocks,
      numbers |-> reinsert_blocks(old_blocks).numbers,
      pending |-> None] :
        old_blocks \in sorted_by_number(retained_blocks(b, persisted_height))}

\* The facades remove_persisted_blocks(persisted_height) can leave: both maps
\* are emptied and the retained blocks re-inserted in one of the orders the
\* sort can give; the pending lock is held and its slot is not written.
remove_persisted_blocks(b, n, p, persisted_height) ==
    {[blocks |-> reinsert_blocks(old_blocks).blocks,
      numbers |-> reinsert_blocks(old_blocks).numbers,
      pending |-> p] :
        old_blocks \in sorted_by_number(retained_blocks(b, persisted_height))}

(***************************************************************************)
(* Inputs.                                                                 *)
(***************************************************************************)
\* Vec<ExecutedBlock> of at most n blocks, no block twice (inserting a block a
\* second time in one call repeats the first insertion)
BlockSeqs(n) ==
    UNION {{s \in [1..k -> Blocks] : \A i, j \in 1..k : i # j => s[i] # s[j]} :
              k \in 0..n}

\* The `old` lists of a Reorg.  The removal loop removes by key, so the order
\* of `old` and a repeated block make no difference: one list per set of blocks.
OldSeqs(n) ==
    {s \in BlockSeqs(n) : \A i, j \in 1..Len(s) : i < j => s[i].hash < s[j].hash}

Heights == 0..MaxNumber

\* Option<BlockState> handed to CanonicalInMemoryState::new as pending
PendingInputs ==
    {None} \cup {BlockState_new(b) : b \in Blocks}
           \cup {with_parent(b, BlockState_new(ExecutedBlock(b.parent_hash))) :
                    b \in {x \in Blocks : x.parent_hash \in Hashes}}

\* each block the child of the one before it
ParentLinked(s) == \A i \in 2..Len(s) : s[i].parent_hash = s[i - 1].hash

\* the non-empty parent-linked sequences of blocks
Paths ==
    {s \in UNION {[1..k -> Blocks] : k \in 1..MaxNumber} : ParentLinked(s)}

Range(s) == {s[i] : i \in 1..Len(s)}

(***************************************************************************)
(* Well-formed transitions: a Commit extends the current head, a Reorg     *)
(* evicts exactly the tracked suffix above its fork point and extends the  *)
(* fork point.  update_chain validates neither.                            *)
(***************************************************************************)
\* the blocks of the chain of the current head, oldest first
TrackedChain(b, n) ==
    IF head_state(b, n) = None
    THEN <<>>
    ELSE state_provider(b, hash(head_state(b, n)))

ExtendsHead(b, n, new) ==
    /\ new # <<>>
    /\ ParentLinked(new)
    /\ \/ DOMAIN b = {}
       \/ /\ head_state(b, n) # None
          /\ new[1].parent_hash = hash(head_state(b, n))

TrackedSuffix(b, n, old) ==
    LET tracked == TrackedChain(b, n)
    IN  /\ old # <<>>
        /\ Len(old) <= Len(tracked)
        /\ old = SubSeq(tracked, Len(tracked) - Len(old) + 1, Len(tracked))

WellFormedReorg(b, n, new, old) ==
    /\ TrackedSuffix(b, n, old)
    /\ new # <<>>
    /\ ParentLinked(new)
    /\ new[1].parent_hash = old[1].parent_hash
    /\ new[1] # old[1]

(***************************************************************************)
(* Threads and locks.  blocks, numbers and pending each sit behind a       *)
(* parking_lot RwLock: write() waits until the lock has no writer and no   *)
(* reader, read() waits until it has no writer.  (parking_lot may also     *)
(* make read() wait behind a waiting writer; that only removes runs.)      *)
(***************************************************************************)
Writers == {"w1", "w2"}

Readers == {"r1"}

Threads == Writers \cup Readers

LockNames == {"blocks", "numbers", "pending"}

NoThread == "none"

Unlocked == [l \in LockNames |-> [writer |-> NoThread, readers |-> {}]]

Idle == [pc |-> "idle"]

can_read(l) == locks[l].writer = NoThread

can_write(l) == locks[l].writer = NoThread /\ locks[l].readers = {}

holds(t, l) == locks[l].writer = t \/ t \in locks[l].readers

\* faulty variant: the locks are taken in the opposite order
locks_reversed == <<"pending", "numbers", "blocks">>

\* faulty variant: no lock is taken
locks_none == <<>>

\* update_blocks: "acquire all locks", in the order of the three let bindings
update_blocks_locks == <<"blocks", "numbers", "pending">>

\* remove_persisted_blocks: the order of its three let bindings
remove_persisted_blocks_locks == <<"blocks", "numbers", "pending">>

is_update_chain(call) == call.op \in {"commit", "reorg"}

is_mutation(call) == call.op \in {"commit", "reorg", "remove_persisted_blocks"}

lock_order(call) ==
    IF is_update_chain(call)
    THEN update_blocks_locks
    ELSE remove_persisted_blocks_locks

NoLock == "none"

\* the lock a thread is asking for, NoLock when it is not at a lock
wanted(t) ==
    LET th == threads[t]
    IN  IF th.pc = "lock" THEN lock_order(th.call)[th.held + 1]
        ELSE IF th.pc = "lock_blocks" THEN "blocks"
        ELSE IF th.pc = "lock_numbers" THEN "numbers"
        ELSE IF th.pc = "lock_pending" THEN "pending"
        ELSE NoLock

\* t waits for a lock that u holds in a mode that keeps t out
waits_for(t, u) ==
    /\ t # u
    /\ wanted(t) # NoLock
    /\ IF threads[t].pc = "lock"
       THEN holds(u, wanted(t))
       ELSE locks[wanted(t)].writer = u

(***************************************************************************)
(* The facade as a state machine: any transition, any threshold.           *)
(* last.wf tells whether every transition so far was well formed, and      *)
(* last.commits whether every call so far was an update_chain(Commit).     *)
(***************************************************************************)
\* no thread is in a call
NoCalls ==
    /\ locks = Unlocked
    /\ threads = [t \in Threads |-> Idle]
    /\ applied = {}
    /\ initial = None

\* the canonical head of the ChainInfoTracker as CanonicalInMemoryState::new
\* set it (the header of head_state(), or SealedHeader::default()), until
\* set_canonical_head replaces it
AsConstructed == [constructed |-> TRUE]

\* The tracker and the stream of inactive peers as constructed.
\* ChainInfoTracker::new: no safe or finalized header, no hook was called.
\* InactivePeers::new: no peer tracked, no peer queued; the first tick of a
\* tokio interval completes at once; the network is not syncing.
Unused ==
    /\ chain_info = [safe |-> None, finalized |-> None,
                     last_forkchoice_update |-> None,
                     last_transition_configuration_exchange |-> None]
    /\ last_activity = EmptyMap
    /\ inactive_peers = <<>>
    /\ interval_ready = TRUE
    /\ is_syncing = FALSE

\* nothing has been sent through the channel, and no receipts were asked for
Untouched ==
    /\ sent = 0
    /\ stamps = EmptyMap
    /\ received = EmptyMap
    /\ receipt_vec = <<>>
    /\ debug_assertions = TRUE
    /\ returned = None
    /\ Unused

\* CanonicalInMemoryState::new(HashMap::new(), HashMap::new(), pending)
Init ==
    /\ blocks = EmptyMap
    /\ numbers = EmptyMap
    /\ pending \in PendingInputs
    /\ last = [op |-> "new", wf |-> TRUE, commits |-> TRUE]
    /\ NoCalls
    /\ canonical_head = AsConstructed
    /\ receivers = EmptyMap
    /\ Untouched

\* update_chain(NewCanonicalChain::Commit { new })
Commit(new) ==
    LET r == update_chain(blocks, numbers, pending, [op |-> "commit", new |-> new])
    IN  /\ blocks' = r.blocks
        /\ numbers' = r.numbers
        /\ pending' = r.pending
        /\ last' = [op |-> "commit",
                    wf |-> last.wf /\ ExtendsHead(blocks, numbers, new),
                    commits |-> last.commits]
        /\ UNCHANGED <<calls, flow, deliveries, receipts_call, elsewhere>>

\* update_chain(NewCanonicalChain::Reorg { new, old })
Reorg(new, old) ==
    LET r == update_chain(blocks, numbers, pending,
                          [op |-> "reorg", new |-> new, old |-> old])
    IN  /\ blocks' = r.blocks
        /\ numbers' = r.numbers
        /\ pending' = r.pending
        /\ last' = [op |-> "reorg",
                    wf |-> last.wf /\ WellFormedReorg(blocks, numbers, new, old),
                    commits |-> FALSE]
        /\ UNCHANGED <<calls, flow, deliveries, receipts_call, elsewhere>>

\* remove_persisted_blocks(persisted_height)
RemovePersistedBlocks(persisted_height) ==
    \E r \in remove_persisted_blocks(blocks, numbers, pending, persisted_height) :
        /\ blocks' = r.blocks
        /\ numbers' = r.numbers
        /\ pending' = r.pending
        /\ last' = [op |-> "remove_persisted_blocks", wf |-> last.wf,
                    commits |-> FALSE, height |-> persisted_height]
        /\ UNCHANGED <<calls, flow, deliveries, receipts_call, elsewhere>>

Next ==
    \/ \E new \in BlockSeqs(MaxNew) : Commit(new)
    \/ \E new \in BlockSeqs(MaxNew), old \in OldSeqs(MaxOld) : Reorg(new, old)
    \/ \E h \in Heights : RemovePersistedBlocks(h)

Spec == Init /\ [][Next]_vars

(***************************************************************************)
(* The facade built by CanonicalInMemoryState::new from maps that already  *)
(* hold a chain (blocks linked to their parents, every block indexed under *)
(* its number) and any pending block.                                      *)
(***************************************************************************)
InitNew ==
    /\ \E path \in Paths \cup {<<>>} :
          /\ blocks = reinsert_blocks(path).blocks
          /\ numbers = reinsert_blocks(path).numbers
    /\ pending \in PendingInputs
    /\ last = [op |-> "new", wf |-> TRUE, commits |-> TRUE]
    /\ NoCalls
    /\ canonical_head = AsConstructed
    /\ receivers = EmptyMap
    /\ Untouched

SpecNew == InitNew /\ [][Next]_vars

(***************************************************************************)
(* Concurrent callers: every thread makes one call on the shared facade,   *)
(* a step at a time.  A mutation takes its write locks one by one, runs    *)
(* its loops an iteration at a time and drops its guards in the reverse    *)
(* order of their declaration when it returns.  state_by_number and        *)
(* head_state keep the guard of numbers.read() alive across the closure    *)
(* that takes blocks.read(): the guard is a temporary of the tail          *)
(* expression and is dropped after the whole expression is evaluated.      *)
(***************************************************************************)
\* the sibling of a block: the other child of its parent
SiblingPairs ==
    {<<x, y>> \in Blocks \X Blocks : x # y /\ x.parent_hash = y.parent_hash}

\* the mutations the writers issue: single-block Commits, single-block
\* Reorgs onto a sibling, remove_persisted_blocks of any height
WriterCalls ==
    {[op |-> "commit", new |-> <<b>>, old |-> <<>>] : b \in Blocks}
    \cup {[op |-> "reorg", new |-> <<p[1]>>, old |-> <<p[2]>>] : p \in SiblingPairs}
    \cup {[op |-> "remove_persisted_blocks", persisted_height |-> h] : h \in Heights}

ReaderCalls ==
    {[op |-> "state_by_hash", hash |-> h] : h \in Hashes}
    \cup {[op |-> "state_by_number", number |-> n] : n \in 1..MaxNumber}
    \cup {[op |-> "head_state"], [op |-> "pending_state"]}

\* where a mutation stands once it has been granted `held` of its locks
after_lock(call, held) ==
    IF held < Len(lock_order(call)) THEN "lock"
    ELSE IF call.op = "remove_persisted_blocks" THEN "clear"
    ELSE IF call.old # <<>> THEN "remove"
    ELSE IF call.new # <<>> THEN "insert"
    ELSE "take"

\* where a mutation stands once it has dropped all but `held` of its guards
after_unlock(held) == IF held > 0 THEN "unlock" ELSE "done"

\* numbers.get(&number) of state_by_number, numbers.iter().max_by_key(..) of
\* head_state: the numbers that lead on to the hash map (none or one)
found_numbers(call) ==
    IF call.op = "state_by_number"
    THEN {call.number} \cap DOMAIN numbers
    ELSE {x \in DOMAIN numbers : \A k \in DOMAIN numbers : k <= x}

\* a thread starts a call
Call(t, call) ==
    /\ threads[t] = Idle
    /\ threads' = [threads EXCEPT ![t] =
          IF is_mutation(call)
          THEN [call |-> call, pc |-> after_lock(call, 0), held |-> 0,
                todo |-> IF is_update_chain(call) THEN call.old \o call.new ELSE <<>>]
          ELSE [call |-> call,
                pc |-> IF call.op = "state_by_hash" THEN "lock_blocks"
                       ELSE IF call.op = "pending_state" THEN "lock_pending"
                       ELSE "lock_numbers",
                hash |-> IF call.op = "state_by_hash" THEN call.hash ELSE 0,
                result |-> None]]
    /\ UNCHANGED <<blocks, numbers, pending, last, locks, applied, initial, outside>>

\* let mut blocks = ...blocks.write(); (and numbers, and pending)
LockWrite(t) ==
    /\ threads[t].pc = "lock"
    /\ LET th == threads[t]
           l == lock_order(th.call)[th.held + 1]
       IN  /\ can_write(l)
           /\ locks' = [locks EXCEPT ![l].writer = t]
           /\ threads' = [threads EXCEPT ![t].held = th.held + 1,
                                         ![t].pc = after_lock(th.call, th.held + 1)]
    /\ UNCHANGED <<blocks, numbers, pending, last, applied, initial, outside>>

\* one iteration of `for block in reorged`
RemoveReorged(t) ==
    /\ threads[t].pc = "remove"
    /\ LET th == threads[t]
           r == remove_reorged(blocks, numbers, <<Head(th.todo)>>)
           rest == Tail(th.todo)
       IN  /\ blocks' = r.blocks
           /\ numbers' = r.numbers
           /\ threads' = [threads EXCEPT
                 ![t].todo = rest,
                 ![t].pc = IF Len(rest) > Len(th.call.new) THEN "remove"
                           ELSE IF rest # <<>> THEN "insert" ELSE "take"]
    /\ UNCHANGED <<pending, last, locks, applied, initial, outside>>

\* one iteration of `for block in new_blocks`
InsertBlock(t) ==
    /\ threads[t].pc = "insert"
    /\ LET th == threads[t]
           r == insert_block(blocks, numbers, Head(th.todo))
           rest == Tail(th.todo)
       IN  /\ blocks' = r.blocks
           /\ numbers' = r.numbers
           /\ threads' = [threads EXCEPT
                 ![t].todo = rest,
                 ![t].pc = IF rest # <<>> THEN "insert" ELSE "take"]
    /\ UNCHANGED <<pending, last, locks, applied, initial, outside>>

\* faulty variant: the slot is read and left as it is
take_kept(p) == p

\* what Option::take leaves in the slot
take(p) == None

\* pending.take(), the last statement of update_blocks
TakePending(t) ==
    /\ threads[t].pc = "take"
    /\ pending' = take(pending)
    /\ applied' = applied \cup {blocks}
    /\ threads' = [threads EXCEPT ![t].pc = after_unlock(threads[t].held)]
    /\ UNCHANGED <<blocks, numbers, last, locks, initial, outside>>

\* numbers.clear()
ClearNumbers(t) ==
    /\ threads[t].pc = "clear"
    /\ numbers' = EmptyMap
    /\ threads' = [threads EXCEPT ![t].pc = "drain"]
    /\ UNCHANGED <<blocks, pending, last, locks, applied, initial, outside>>

\* blocks.drain() ... .collect(), old_blocks.sort_unstable_by_key(..)
DrainBlocks(t) ==
    /\ threads[t].pc = "drain"
    /\ \E old_blocks \in
            sorted_by_number(retained_blocks(blocks, threads[t].call.persisted_height)) :
          /\ blocks' = EmptyMap
          /\ threads' = [threads EXCEPT
                ![t].todo = old_blocks,
                ![t].pc = IF old_blocks # <<>> THEN "reinsert"
                          ELSE after_unlock(threads[t].held)]
          /\ applied' = IF old_blocks # <<>> THEN applied ELSE applied \cup {EmptyMap}
    /\ UNCHANGED <<numbers, pending, last, locks, initial, outside>>

\* one iteration of `for block in old_blocks`
ReinsertBlock(t) ==
    /\ threads[t].pc = "reinsert"
    /\ LET th == threads[t]
           r == insert_block(blocks, numbers, Head(th.todo))
           rest == Tail(th.todo)
       IN  /\ blocks' = r.blocks
           /\ numbers' = r.numbers
           /\ threads' = [threads EXCEPT
                 ![t].todo = rest,
                 ![t].pc = IF rest # <<>> THEN "reinsert" ELSE after_unlock(th.held)]
           /\ applied' = IF rest # <<>> THEN applied ELSE applied \cup {r.blocks}
    /\ UNCHANGED <<pending, last, locks, initial, outside>>

\* the write guards are dropped on return, the last one taken first
UnlockWrite(t) ==
    /\ threads[t].pc = "unlock"
    /\ LET th == threads[t]
           l == lock_order(th.call)[th.held]
       IN  /\ locks' = [locks EXCEPT ![l].writer = NoThread]
           /\ threads' = [threads EXCEPT ![t].held = th.held - 1,
                                         ![t].pc = after_unlock(th.held - 1)]
    /\ UNCHANGED <<blocks, numbers, pending, last, applied, initial, outside>>

\* self.numbers.read()
LockNumbersRead(t) ==
    /\ threads[t].pc = "lock_numbers"
    /\ can_read("numbers")
    /\ locks' = [locks EXCEPT !["numbers"].readers = @ \cup {t}]
    /\ threads' = [threads EXCEPT ![t].pc = "get_number"]
    /\ UNCHANGED <<blocks, numbers, pending, last, applied, initial, outside>>

\* .get(&number) or .iter().max_by_key(..): without an entry and_then returns
\* None and the guard is dropped, with one the closure runs under the guard
GetNumber(t) ==
    /\ threads[t].pc = "get_number"
    /\ LET found == found_numbers(threads[t].call)
       IN  IF found = {}
           THEN /\ locks' = [locks EXCEPT !["numbers"].readers = @ \ {t}]
                /\ threads' = [threads EXCEPT ![t].pc = "done"]
           ELSE /\ locks' = locks
                /\ threads' = [threads EXCEPT
                      ![t].hash = numbers[CHOOSE x \in found : TRUE],
                      ![t].pc = "lock_blocks"]
    /\ UNCHANGED <<blocks, numbers, pending, last, applied, initial, outside>>

\* self.blocks.read()
LockBlocksRead(t) ==
    /\ threads[t].pc = "lock_blocks"
    /\ can_read("blocks")
    /\ locks' = [locks EXCEPT !["blocks"].readers = @ \cup {t}]
    /\ threads' = [threads EXCEPT ![t].pc = "get_block"]
    /\ UNCHANGED <<blocks, numbers, pending, last, applied, initial, outside>>

\* .get(&hash).cloned(), and the guard of blocks.read() is dropped
GetBlock(t) ==
    /\ threads[t].pc = "get_block"
    /\ locks' = [locks EXCEPT !["blocks"].readers = @ \ {t}]
    /\ threads' = [threads EXCEPT
          ![t].result = MapGet(blocks, threads[t].hash),
          ![t].pc = IF threads[t].call.op = "state_by_hash"
                    THEN "done" ELSE "unlock_numbers"]
    /\ UNCHANGED <<blocks, numbers, pending, last, applied, initial, outside>>

\* the guard of numbers.read() is dropped when state_by_number or head_state
\* returns
UnlockNumbers(t) ==
    /\ threads[t].pc = "unlock_numbers"
    /\ locks' = [locks EXCEPT !["numbers"].readers = @ \ {t}]
    /\ threads' = [threads EXCEPT ![t].pc = "done"]
    /\ UNCHANGED <<blocks, numbers, pending, last, applied, initial, outside>>

\* self.pending.read()
LockPendingRead(t) ==
    /\ threads[t].pc = "lock_pending"
    /\ can_read("pending")
    /\ locks' = [locks EXCEPT !["pending"].readers = @ \cup {t}]
    /\ threads' = [threads EXCEPT ![t].pc = "get_pending"]
    /\ UNCHANGED <<blocks, numbers, pending, last, applied, initial, outside>>

\* .as_ref().map(..), and the guard of pending.read() is dropped
GetPending(t) ==
    /\ threads[t].pc = "get_pending"
    /\ locks' = [locks EXCEPT !["pending"].readers = @ \ {t}]
    /\ threads' = [threads EXCEPT ![t].result = pending_state(pending),
                                  ![t].pc = "done"]
    /\ UNCHANGED <<blocks, numbers, pending, last, applied, initial, outside>>

\* the chains the shared facade is built over: nothing, or block 1 and some
\* of its descendants
SharedPaths == {<<>>} \cup {p \in Paths : p[1].hash = 1}

\* the pending blocks the shared facade is built with: none, or the block with
\* the greatest hash linked to its parent
SharedPending ==
    {None, with_parent(ExecutedBlock(NumBlocks),
                       BlockState_new(ExecutedBlock(NumBlocks \div 2)))}

InitShared ==
    /\ \E path \in SharedPaths :
          /\ blocks = reinsert_blocks(path).blocks
          /\ numbers = reinsert_blocks(path).numbers
    /\ pending \in SharedPending
    /\ last = [op |-> "new", wf |-> TRUE, commits |-> TRUE]
    /\ locks = Unlocked
    /\ threads = [t \in Threads |-> Idle]
    /\ applied = {blocks}
    /\ initial = [blocks |-> blocks, numbers |-> numbers, pending |-> pending]
    /\ canonical_head = AsConstructed
    /\ receivers = EmptyMap
    /\ Untouched

NextShared ==
    \/ \E t \in Writers, call \in WriterCalls : Call(t, call)
    \/ \E t \in Readers, call \in ReaderCalls : Call(t, call)
    \/ \E t \in Writers :
          \/ LockWrite(t)
          \/ RemoveReorged(t)
          \/ InsertBlock(t)
          \/ TakePending(t)
          \/ ClearNumbers(t)
          \/ DrainBlocks(t)
          \/ ReinsertBlock(t)
          \/ UnlockWrite(t)
    \/ \E t \in Readers :
          \/ LockNumbersRead(t)
          \/ GetNumber(t)
          \/ LockBlocksRead(t)
          \/ GetBlock(t)
          \/ UnlockNumbers(t)
          \/ LockPendingRead(t)
          \/ GetPending(t)

SpecShared == InitShared /\ [][NextShared]_vars

(***************************************************************************)
(* The chain-info tracker and the notification channel.  The facade        *)
(* forwards set_canonical_head to the ChainInfoTracker and                 *)
(* notify_canon_state to a tokio broadcast sender; update_chain calls      *)
(* neither.  A receiver gets the events sent after it subscribed.          *)
(***************************************************************************)
CANON_STATE_NOTIFICATION_CHANNEL_SIZE == 256

MaxEvents == 1      \* most unread events of a receiver

Subscribers == {"s1", "s2"}

\* the senders and the execution outcome an ExecutedBlock carries: its own
senders(block) == [senders_of |-> block.hash]

execution_output(block) == [outcome_of |-> block.hash]

\* ExecutedBlock::sealed_block_with_senders
sealed_block_with_senders(executed) ==
    [block |-> executed, senders |-> senders(executed)]

\* Chain::new(blocks, execution_outcome, trie_updates)
Chain_new(chain_blocks, execution_outcome, trie_updates) ==
    [blocks |-> chain_blocks, execution_outcome |-> execution_outcome,
     trie_updates |-> trie_updates]

\* faulty variant: the outcome of the first block is attached
chain_of_first_outcome(list) ==
    IF list = <<>>
    THEN Panic
    ELSE Chain_new([i \in 1..Len(list) |-> sealed_block_with_senders(list[i])],
                   execution_output(list[1]), None)

\* faulty variant: an empty list gives a chain without blocks
\* (last().map(..).unwrap_or_default() in place of last().unwrap())
chain_of_or_default(list) ==
    IF list = <<>>
    THEN Chain_new(<<>>, None, None)
    ELSE Chain_new([i \in 1..Len(list) |-> sealed_block_with_senders(list[i])],
                   execution_output(list[Len(list)]), None)

\* Chain::new(list.iter().map(sealed_block_with_senders),
\*            list.last().unwrap().execution_output.deref().clone(), None)
chain_of(list) ==
    IF list = <<>>
    THEN Panic
    ELSE Chain_new([i \in 1..Len(list) |-> sealed_block_with_senders(list[i])],
                   execution_output(list[Len(list)]), None)

\* NewCanonicalChain::to_chain_notification: the chain of new is built first,
\* and a panic while a chain is built ends the call
to_chain_notification(new_chain) ==
    IF chain_of(new_chain.new) = Panic
    THEN Panic
    ELSE IF new_chain.op = "commit"
    THEN [event |-> "Commit", new |-> chain_of(new_chain.new)]
    ELSE IF chain_of(new_chain.old) = Panic
    THEN Panic
    ELSE [event |-> "Reorg", new |-> chain_of(new_chain.new),
          old |-> chain_of(new_chain.old)]

\* ChainInfoTracker::set_canonical_head
set_canonical_head(header) == header

\* ChainInfoTracker::set_safe
set_safe(info, header) == [info EXCEPT !.safe = header]

\* ChainInfoTracker::set_finalized
set_finalized(info, header) == [info EXCEPT !.finalized = header]

\* ChainInfoTracker::on_forkchoice_update_received: the time of the call
on_forkchoice_update_received(info) ==
    [info EXCEPT !.last_forkchoice_update = [at |-> "now"]]

\* ChainInfoTracker::on_transition_configuration_exchanged: the time of the call
on_transition_configuration_exchanged(info) ==
    [info EXCEPT !.last_transition_configuration_exchange = [at |-> "now"]]

\* faulty variant: a full channel refuses the newest event
send_dropping_newest(queue, event) ==
    IF Len(queue) < CANON_STATE_NOTIFICATION_CHANNEL_SIZE
    THEN Append(queue, event)
    ELSE queue

\* broadcast::Sender::send as one receiver sees it: the event is queued, and
\* a receiver that has a full channel unread loses the oldest event
send(queue, event) ==
    IF Len(queue) < CANON_STATE_NOTIFICATION_CHANNEL_SIZE
    THEN Append(queue, event)
    ELSE Append(Tail(queue), event)

\* faulty variant: only one receiver is served
notify_one(r, event) ==
    [s \in DOMAIN r |->
        IF s = (CHOOSE x \in DOMAIN r : TRUE) THEN send(r[s], event) ELSE r[s]]

\* faulty variant: with no receiver attached the event is kept for the
\* subscribers to come
notify_kept_for_later(r, event) ==
    IF DOMAIN r = {}
    THEN [s \in Subscribers |-> <<event>>]
    ELSE [s \in DOMAIN r |-> send(r[s], event)]

\* canon_state_notification_sender.send(event).ok()
notify_canon_state(r, event) == [s \in DOMAIN r |-> send(r[s], event)]

\* the parent-linked sequences of at most n blocks
PathsUpTo(n) == {p \in Paths : Len(p) <= n}

\* the transitions turned into notifications, and handed to the facade when
\* they are well formed for its state: new and old non-empty, each parent
\* linked, a Reorg forking under one parent
FlowChains ==
    {[op |-> "commit", new |-> new] : new \in PathsUpTo(MaxNew)}
    \cup {[op |-> "reorg", new |-> c[1], old |-> c[2]] :
             c \in {x \in PathsUpTo(MaxNew) \X PathsUpTo(MaxOld) :
                       /\ x[1][1].parent_hash = x[2][1].parent_hash
                       /\ x[1][1] # x[2][1]}}

\* faulty variant: the facade forwards set_canonical_head to set_safe
SetCanonicalHead_forwarded_to_set_safe(header) ==
    /\ chain_info' = set_safe(chain_info, header)
    /\ last' = [op |-> "set_canonical_head", wf |-> last.wf,
                commits |-> last.commits, header |-> header]
    /\ UNCHANGED <<blocks, numbers, pending, calls, flow,
                   deliveries, receipts_call, last_activity,
                   inactive_peers, is_syncing, interval_ready>>

\* CanonicalInMemoryState::set_canonical_head
SetCanonicalHead(header) ==
    /\ canonical_head' = set_canonical_head(header)
    /\ last' = [op |-> "set_canonical_head", wf |-> last.wf,
                commits |-> last.commits, header |-> header]
    /\ UNCHANGED <<blocks, numbers, pending, calls, receivers,
                 deliveries, receipts_call, elsewhere>>

\* CanonicalInMemoryState::subscribe_canon_state
SubscribeCanonState(s) ==
    /\ s \notin DOMAIN receivers
    /\ receivers' = MapInsert(receivers, s, <<>>)
    /\ last' = [op |-> "subscribe_canon_state", wf |-> last.wf,
                commits |-> last.commits]
    /\ UNCHANGED <<blocks, numbers, pending, calls, canonical_head,
                 deliveries, receipts_call, elsewhere>>

\* notify_canon_state(chain.to_chain_notification())
NotifyCanonState(new_chain) ==
    /\ \A s \in DOMAIN receivers : Len(receivers[s]) < MaxEvents
    /\ receivers' = notify_canon_state(receivers, to_chain_notification(new_chain))
    /\ last' = [op |-> "notify_canon_state", wf |-> last.wf,
                commits |-> last.commits]
    /\ UNCHANGED <<blocks, numbers, pending, calls, canonical_head,
                 deliveries, receipts_call, elsewhere>>

\* the block of head_state()
is_head(block) ==
    /\ head_state(blocks, numbers) # None
    /\ head_state(blocks, numbers).block = block

\* The callers of the facade: they apply transitions that are well formed,
\* set the canonical head to the header of the current head and notify of a
\* transition that ends in the current head, in any order and any number.
NextFlow ==
    \/ \E new_chain \in FlowChains :
          /\ new_chain.op = "commit"
          /\ ExtendsHead(blocks, numbers, new_chain.new)
          /\ Commit(new_chain.new)
    \/ \E new_chain \in FlowChains :
          /\ new_chain.op = "reorg"
          /\ WellFormedReorg(blocks, numbers, new_chain.new, new_chain.old)
          /\ Reorg(new_chain.new, new_chain.old)
    \/ \E header \in Blocks :
          /\ is_head(header)
          /\ SetCanonicalHead(header)
    \/ \E s \in Subscribers : SubscribeCanonState(s)
    \/ \E new_chain \in FlowChains :
          /\ is_head(tip(new_chain.new))
          /\ NotifyCanonState(new_chain)

SpecFlow == Init /\ [][NextFlow]_vars

(***************************************************************************)
(* The notification channel with its receivers reading.  The channel       *)
(* numbers the notifications it takes (the position of the tail of the     *)
(* tokio broadcast channel, which a send with no receiver attached does    *)
(* not advance); a receiver remembers the number it read last (its next    *)
(* position, less one).  A receiver that finds the notification after its  *)
(* last one overwritten is told how many it missed and goes on from the    *)
(* oldest one kept.                                                        *)
(***************************************************************************)
MaxLag == 2     \* most notifications sent beyond the capacity of the channel

\* the subscribers that read each notification before the next one is sent
Prompt == {"s2"}

\* the transitions the facade is notified of
ChannelChains == {[op |-> "commit", new |-> <<ExecutedBlock(1)>>]}

\* broadcast::Receiver::recv on a receiver with unread events, the oldest of
\* them numbered first, the receiver having read number read last
recv(queue, first, read) ==
    IF first > read + 1
    THEN [result |-> [lagged |-> first - read - 1], queue |-> queue, read |-> first - 1]
    ELSE [result |-> [ok |-> Head(queue)], queue |-> Tail(queue), read |-> first]

\* CanonicalInMemoryState::new without blocks and without a pending block
InitChannel ==
    /\ Init
    /\ pending = None

\* subscribe_canon_state(): the receiver starts after the last event sent
Subscribe(s) ==
    /\ s \notin DOMAIN receivers
    /\ receivers' = MapInsert(receivers, s, <<>>)
    /\ stamps' = MapInsert(stamps, s, <<>>)
    /\ received' = MapInsert(received, s, sent)
    /\ sent' = sent
    /\ last' = [op |-> "subscribe_canon_state", wf |-> last.wf,
                commits |-> last.commits]
    /\ UNCHANGED <<blocks, numbers, pending, calls, canonical_head, receipts_call, elsewhere>>

\* notify_canon_state(chain.to_chain_notification())
Notify(new_chain) ==
    /\ sent < CANON_STATE_NOTIFICATION_CHANNEL_SIZE + MaxLag
    /\ \A s \in Prompt \cap DOMAIN receivers : receivers[s] = <<>>
    /\ receivers' = notify_canon_state(receivers, to_chain_notification(new_chain))
    /\ sent' = IF DOMAIN receivers = {} THEN sent ELSE sent + 1
    /\ stamps' = [s \in DOMAIN stamps |-> send(stamps[s], sent')]
    /\ received' = received
    /\ last' = [op |-> "notify_canon_state", wf |-> last.wf,
                commits |-> last.commits]
    /\ UNCHANGED <<blocks, numbers, pending, calls, canonical_head, receipts_call, elsewhere>>

\* CanonStateNotifications::recv() of subscriber s
Recv(s) ==
    /\ s \in DOMAIN receivers
    /\ receivers[s] # <<>>
    /\ LET r == recv(receivers[s], Head(stamps[s]), received[s])
       IN  /\ receivers' = [receivers EXCEPT ![s] = r.queue]
           /\ stamps' = [stamps EXCEPT ![s] = IF "ok" \in DOMAIN r.result
                                              THEN Tail(stamps[s]) ELSE stamps[s]]
           /\ received' = [received EXCEPT ![s] = r.read]
           /\ last' = [op |-> "recv", wf |-> last.wf, commits |-> last.commits,
                       subscriber |-> s, result |-> r.result]
    /\ sent' = sent
    /\ UNCHANGED <<blocks, numbers, pending, calls, canonical_head, receipts_call, elsewhere>>

NextChannel ==
    \/ \E s \in Subscribers : Subscribe(s)
    \/ \E new_chain \in ChannelChains : Notify(new_chain)
    \/ \E s \in Subscribers : Recv(s)

SpecChannel == InitChannel /\ [][NextChannel]_vars

(***************************************************************************)
(* BlockState::executed_block_receipts on the receipts of any execution    *)
(* outcome, in a build with and in a build without debug assertions        *)
(* (debug_assert! is compiled to nothing when debug_assertions is off, as  *)
(* in a release build).                                                    *)
(***************************************************************************)
MaxReceipts == 2        \* most receipt slots of one block
MaxOutcomeBlocks == 2   \* most blocks' worth of receipts in one outcome

\* Option<Receipt>: a pruned receipt is None
ReceiptSlots == {None, [receipt |-> "r1"], [receipt |-> "r2"]}

\* Vec<Option<Receipt>>, the receipts of one block
BlockReceipts == UNION {[1..k -> ReceiptSlots] : k \in 0..MaxReceipts}

\* Receipts.receipt_vec: Vec<Vec<Option<Receipt>>>
ReceiptVecs == UNION {[1..k -> BlockReceipts] : k \in 0..MaxOutcomeBlocks}

\* block_receipts.iter().filter_map(|opt_receipt| opt_receipt.clone()).collect()
RECURSIVE filter_map(_)
filter_map(block_receipts) ==
    IF block_receipts = <<>>
    THEN <<>>
    ELSE IF Head(block_receipts) = None
    THEN filter_map(Tail(block_receipts))
    ELSE <<Head(block_receipts)>> \o filter_map(Tail(block_receipts))

\* BlockState::executed_block_receipts: debug_assert!(receipt_vec.len() <= 1),
\* then receipt_vec.first().map(filter_map).unwrap_or_default()
executed_block_receipts(vec, assertions) ==
    IF assertions /\ Len(vec) > 1
    THEN Panic
    ELSE IF vec = <<>>
    THEN [ok |-> <<>>]
    ELSE [ok |-> filter_map(vec[1])]

\* a BlockState whose execution outcome carries any receipts, in either build
InitReceipts ==
    /\ blocks = EmptyMap
    /\ numbers = EmptyMap
    /\ pending = None
    /\ last = [op |-> "new", wf |-> TRUE, commits |-> TRUE]
    /\ NoCalls
    /\ canonical_head = AsConstructed
    /\ receivers = EmptyMap
    /\ sent = 0
    /\ stamps = EmptyMap
    /\ received = EmptyMap
    /\ receipt_vec \in ReceiptVecs
    /\ debug_assertions \in BOOLEAN
    /\ returned = None
    /\ Unused

\* state.executed_block_receipts()
ExecutedBlockReceipts ==
    /\ returned = None
    /\ returned' = executed_block_receipts(receipt_vec, debug_assertions)
    /\ UNCHANGED <<blocks, numbers, pending, last, calls, flow, deliveries,
                   receipt_vec, debug_assertions, elsewhere>>

NextReceipts == ExecutedBlockReceipts

SpecReceipts == InitReceipts /\ [][NextReceipts]_vars

(***************************************************************************)
(* One update_chain on a facade that tracks any blocks: the facade is the  *)
(* one a Commit of any list leaves (blocks of one number and blocks        *)
(* without their parent included), with or without a pending block, and    *)
(* the call is remembered with its transition.                             *)
(***************************************************************************)
\* the transitions update_chain is called with
OnceChains ==
    {[op |-> "commit", new |-> new] : new \in BlockSeqs(MaxNew)}
    \cup {[op |-> "reorg", new |-> new, old |-> old] :
             new \in BlockSeqs(MaxNew), old \in OldSeqs(MaxOld)}

InitOnce ==
    /\ \E s \in BlockSeqs(MaxNew) :
          /\ blocks = reinsert_blocks(s).blocks
          /\ numbers = reinsert_blocks(s).numbers
    /\ pending \in SharedPending
    /\ last = [op |-> "new", wf |-> TRUE, commits |-> TRUE]
    /\ locks = Unlocked
    /\ threads = [t \in Threads |-> Idle]
    /\ applied = {}
    /\ initial = [blocks |-> blocks, numbers |-> numbers, pending |-> pending]
    /\ canonical_head = AsConstructed
    /\ receivers = EmptyMap
    /\ Untouched

\* update_chain(new_chain), the first call on the facade
UpdateChain(new_chain) ==
    /\ last.op = "new"
    /\ LET r == update_chain(blocks, numbers, pending, new_chain)
       IN  /\ blocks' = r.blocks
           /\ numbers' = r.numbers
           /\ pending' = r.pending
    /\ last' = [op |-> new_chain.op,
                wf |-> IF new_chain.op = "commit"
                       THEN ExtendsHead(blocks, numbers, new_chain.new)
                       ELSE WellFormedReorg(blocks, numbers, new_chain.new,
                                            new_chain.old),
                commits |-> new_chain.op = "commit",
                new_chain |-> new_chain]
    /\ UNCHANGED <<calls, outside>>

NextOnce == \E new_chain \in OnceChains : UpdateChain(new_chain)

SpecOnce == InitOnce /\ [][NextOnce]_vars

(***************************************************************************)
(* remove_persisted_blocks called up to MaxCalls times in a row on a       *)
(* facade that tracks any set of blocks, with or without a pending block;  *)
(* every call is remembered with its threshold and the facade it found.    *)
(***************************************************************************)
MaxCalls == 2

InitPersist ==
    /\ \E s \in BlockSeqs(NumBlocks) :
          /\ blocks = reinsert_blocks(s).blocks
          /\ numbers = reinsert_blocks(s).numbers
    /\ pending \in SharedPending
    /\ last = [op |-> "new", wf |-> TRUE, commits |-> TRUE, heights |-> <<>>]
    /\ locks = Unlocked
    /\ threads = [t \in Threads |-> Idle]
    /\ applied = {}
    /\ initial = [blocks |-> blocks, numbers |-> numbers, pending |-> pending]
    /\ canonical_head = AsConstructed
    /\ receivers = EmptyMap
    /\ Untouched

\* remove_persisted_blocks(persisted_height), one of a row of calls
RemovePersistedBlocksCall(persisted_height) ==
    /\ Len(last.heights) < MaxCalls
    /\ \E r \in remove_persisted_blocks(blocks, numbers, pending, persisted_height) :
          /\ blocks' = r.blocks
          /\ numbers' = r.numbers
          /\ pending' = r.pending
    /\ last' = [op |-> "remove_persisted_blocks", wf |-> last.wf,
                commits |-> FALSE, height |-> persisted_height,
                heights |-> Append(last.heights, persisted_height),
                before |-> [blocks |-> blocks, numbers |-> numbers,
                            pending |-> pending]]
    /\ UNCHANGED <<calls, outside>>

SpecPersist ==
    InitPersist /\ [][\E h \in Heights : RemovePersistedBlocksCall(h)]_vars

(***************************************************************************)
(* The chain-info calls of the facade next to its mutations: the heads are *)
(* set to any of the InfoHeaders and the hooks are called, in any order    *)
(* with well-formed transitions and remove_persisted_blocks calls.         *)
(***************************************************************************)
\* the headers handed to the setters
InfoHeaders == {ExecutedBlock(1), ExecutedBlock(2)}

\* CanonicalInMemoryState::set_safe
SetSafe(header) ==
    /\ chain_info' = set_safe(chain_info, header)
    /\ last' = [op |-> "set_safe", wf |-> last.wf,
                commits |-> last.commits, header |-> header]
    /\ UNCHANGED <<blocks, numbers, pending, calls, flow,
                   deliveries, receipts_call, last_activity,
                   inactive_peers, is_syncing, interval_ready>>

\* CanonicalInMemoryState::set_finalized
SetFinalized(header) ==
    /\ chain_info' = set_finalized(chain_info, header)
    /\ last' = [op |-> "set_finalized", wf |-> last.wf,
                commits |-> last.commits, header |-> header]
    /\ UNCHANGED <<blocks, numbers, pending, calls, flow,
                   deliveries, receipts_call, last_activity,
                   inactive_peers, is_syncing, interval_ready>>

\* CanonicalInMemoryState::on_forkchoice_update_received
OnForkchoiceUpdateReceived ==
    /\ chain_info' = on_forkchoice_update_received(chain_info)
    /\ last' = [op |-> "on_forkchoice_update_received", wf |-> last.wf,
                commits |-> last.commits]
    /\ UNCHANGED <<blocks, numbers, pending, calls, flow,
                   deliveries, receipts_call, last_activity,
                   inactive_peers, is_syncing, interval_ready>>

\* CanonicalInMemoryState::on_transition_configuration_exchanged
OnTransitionConfigurationExchanged ==
    /\ chain_info' = on_transition_configuration_exchanged(chain_info)
    /\ last' = [op |-> "on_transition_configuration_exchanged", wf |-> last.wf,
                commits |-> last.commits]
    /\ UNCHANGED <<blocks, numbers, pending, calls, flow,
                   deliveries, receipts_call, last_activity,
                   inactive_peers, is_syncing, interval_ready>>

NextInfo ==
    \/ \E new_chain \in FlowChains :
          /\ new_chain.op = "commit"
          /\ ExtendsHead(blocks, numbers, new_chain.new)
          /\ Commit(new_chain.new)
    \/ \E new_chain \in FlowChains :
          /\ new_chain.op = "reorg"
          /\ WellFormedReorg(blocks, numbers, new_chain.new, new_chain.old)
          /\ Reorg(new_chain.new, new_chain.old)
    \/ \E h \in Heights : RemovePersistedBlocks(h)
    \/ \E header \in InfoHeaders : SetCanonicalHead(header)
    \/ \E header \in InfoHeaders : SetSafe(header)
    \/ \E header \in InfoHeaders : SetFinalized(header)
    \/ OnForkchoiceUpdateReceived
    \/ OnTransitionConfigurationExchanged

SpecInfo == Init /\ [][NextInfo]_vars

(***************************************************************************)
(* InactivePeers: the stream of the peers that have shown no activity for  *)
(* the inactivity threshold.  An Instant is kept as the time that has      *)
(* passed since it was taken, which is all the stream asks of it; times    *)
(* beyond the threshold are kept as one value.  Peers are tracked,         *)
(* untracked and seen active, the network starts and stops syncing, time   *)
(* passes and the stream is polled, in any order.                          *)
(***************************************************************************)
\* Duration::from_secs(60)
inactivity_threshold == 60

\* the period of the interval, Duration::from_secs(1)
interval_period == 1

PeerIds == {"p1", "p2"}

\* Poll::Pending
Poll_Pending == [pending |-> TRUE]

\* Instant::elapsed() of an Instant taken `age` ago, after `d` more has passed
elapsed(age, d) ==
    IF age + d > inactivity_threshold THEN inactivity_threshold + 1 ELSE age + d

\* if let Some(instant) = last_activity.get_mut(&peer_id) { *instant = now }
track_activity(activity, peer_id) ==
    IF peer_id \in DOMAIN activity
    THEN [activity EXCEPT ![peer_id] = 0]
    ELSE activity

\* last_activity.insert(peer_id, Instant::now())
start_tracking(activity, peer_id) == MapInsert(activity, peer_id, 0)

\* last_activity.remove(&peer_id)
stop_tracking(activity, peer_id) == MapRemove(activity, peer_id)

\* What the scan can push to the back of the queue: the peers of S, the
\* keys of last_activity whose time has reached the threshold, in one of the
\* orders the iteration of a HashMap can visit them.
RECURSIVE scan(_)
scan(S) ==
    IF S = {}
    THEN {<<>>}
    ELSE UNION {{<<x>> \o rest : rest \in scan(S \ {x})} : x \in S}

\* faulty variant: the scan runs before the queue is looked at
poll_next_scanning_first(syncing, activity, queue, tick) ==
    IF syncing
    THEN {[result |-> Poll_Pending, inactive_peers |-> queue,
           interval_ready |-> tick, scanned |-> FALSE, woken |-> FALSE]}
    ELSE {IF queue \o pushed # <<>>
          THEN [result |-> [ready |-> Head(queue \o pushed)],
                inactive_peers |-> Tail(queue \o pushed),
                interval_ready |-> FALSE, scanned |-> tick, woken |-> FALSE]
          ELSE [result |-> Poll_Pending, inactive_peers |-> <<>>,
                interval_ready |-> FALSE, scanned |-> tick, woken |-> FALSE] :
             pushed \in
                 IF tick
                 THEN scan({p \in DOMAIN activity :
                               activity[p] >= inactivity_threshold})
                 ELSE {<<>>}}

\* The outcomes of poll_next: Pending while the network is syncing; the front
\* of the queue when there is one; otherwise, when the tick of the interval
\* has completed, the scan fills the queue, the task is woken if the queue is
\* not empty, and the poll is Pending.
poll_next(syncing, activity, queue, tick) ==
    IF syncing
    THEN {[result |-> Poll_Pending, inactive_peers |-> queue,
           interval_ready |-> tick, scanned |-> FALSE, woken |-> FALSE]}
    ELSE IF queue # <<>>
    THEN {[result |-> [ready |-> Head(queue)], inactive_peers |-> Tail(queue),
           interval_ready |-> tick, scanned |-> FALSE, woken |-> FALSE]}
    ELSE {[result |-> Poll_Pending, inactive_peers |-> pushed,
           interval_ready |-> FALSE, scanned |-> tick,
           woken |-> pushed # <<>>] :
             pushed \in
                 IF tick
                 THEN scan({p \in DOMAIN activity :
                               activity[p] >= inactivity_threshold})
                 ELSE {<<>>}}

InitPeers ==
    /\ blocks = EmptyMap
    /\ numbers = EmptyMap
    /\ pending = None
    /\ last = [op |-> "new", stopped |-> {}]
    /\ NoCalls
    /\ canonical_head = AsConstructed
    /\ receivers = EmptyMap
    /\ Untouched

\* InactivePeers::track_activity
TrackActivity(peer_id) ==
    /\ last_activity' = track_activity(last_activity, peer_id)
    /\ last' = [op |-> "track_activity", peer |-> peer_id,
                tracked |-> DOMAIN last_activity, stopped |-> last.stopped]
    /\ UNCHANGED <<blocks, numbers, pending, calls, flow, deliveries,
                   receipts_call, chain_info, inactive_peers, is_syncing, interval_ready>>

\* InactivePeers::start_tracking
StartTracking(peer_id) ==
    /\ last_activity' = start_tracking(last_activity, peer_id)
    /\ last' = [op |-> "start_tracking", peer |-> peer_id,
                tracked |-> DOMAIN last_activity,
                stopped |-> last.stopped \ {peer_id}]
    /\ UNCHANGED <<blocks, numbers, pending, calls, flow, deliveries,
                   receipts_call, chain_info, inactive_peers, is_syncing, interval_ready>>

\* InactivePeers::stop_tracking
StopTracking(peer_id) ==
    /\ last_activity' = stop_tracking(last_activity, peer_id)
    /\ last' = [op |-> "stop_tracking", peer |-> peer_id,
                tracked |-> DOMAIN last_activity,
                stopped |-> last.stopped \cup {peer_id}]
    /\ UNCHANGED <<blocks, numbers, pending, calls, flow, deliveries,
                   receipts_call, chain_info, inactive_peers, is_syncing, interval_ready>>

\* <InactivePeers as Stream>::poll_next
PollNext ==
    \E r \in poll_next(is_syncing, last_activity, inactive_peers, interval_ready) :
        /\ inactive_peers' = r.inactive_peers
        /\ interval_ready' = r.interval_ready
        /\ last' = [op |-> "poll_next", result |-> r.result,
                    scanned |-> r.scanned, woken |-> r.woken,
                    queue |-> inactive_peers, stopped |-> last.stopped]
        /\ UNCHANGED <<blocks, numbers, pending, calls, flow, deliveries,
                   receipts_call, chain_info, last_activity, is_syncing>>

\* time passes: every Instant is that much older and the next tick of the
\* interval completes
Elapse(d) ==
    /\ last_activity' = [p \in DOMAIN last_activity |-> elapsed(last_activity[p], d)]
    /\ interval_ready' = TRUE
    /\ last' = [op |-> "elapse", stopped |-> last.stopped]
    /\ UNCHANGED <<blocks, numbers, pending, calls, flow, deliveries,
                   receipts_call, chain_info, inactive_peers, is_syncing>>

\* the network starts or stops syncing
Syncing(syncing) ==
    /\ is_syncing' = syncing
    /\ last' = [op |-> "syncing", stopped |-> last.stopped]
    /\ UNCHANGED <<blocks, numbers, pending, calls, flow, deliveries,
                   receipts_call, chain_info, last_activity, inactive_peers, interval_ready>>

NextPeers ==
    \/ \E p \in PeerIds : TrackActivity(p)
    \/ \E p \in PeerIds : StartTracking(p)
    \/ \E p \in PeerIds : StopTracking(p)
    \/ PollNext
    \/ \E d \in {interval_period, inactivity_threshold} : Elapse(d)
    \/ \E syncing \in BOOLEAN : Syncing(syncing)

SpecPeers == InitPeers /\ [][NextPeers]_vars

(***************************************************************************)
(* Properties.                                                             *)
(***************************************************************************)
Tracked == {blocks[h] : h \in DOMAIN blocks}

\* the blocks of a sequence of BlockStates
BlocksOf(states) == [i \in 1..Len(states) |-> states[i].block]

\* C1 as stated: after update_chain(Reorg{new, old}) on any reachable state no
\* block of old resolves by hash or by its number, and every block of new
\* resolves by hash to that block.
C1_OldUnresolvableNewResolvable ==
    \A new \in BlockSeqs(MaxNew), old \in OldSeqs(MaxOld) :
        LET r == update_blocks(blocks, numbers, pending, new, old)
        IN  /\ \A o \in Range(old) :
                  /\ state_by_hash(r.blocks, o.hash) = None
                  /\ state_by_number(r.blocks, r.numbers, o.number) = None
                     \/ state_by_number(r.blocks, r.numbers, o.number).block \notin Range(old)
            /\ \A x \in Range(new) :
                  /\ state_by_hash(r.blocks, x.hash) # None
                  /\ state_by_hash(r.blocks, x.hash).block = x

\* C1 amended: after update_chain(Reorg{new, old}) on any reachable state no
\* block of old that is not also in new resolves by hash or by its number, and
\* every block of new resolves by hash to that block.
C1_EvictedUnresolvableNewResolvable ==
    \A new \in BlockSeqs(MaxNew), old \in OldSeqs(MaxOld) :
        LET r == update_blocks(blocks, numbers, pending, new, old)
            evicted == Range(old) \ Range(new)
        IN  /\ \A o \in evicted :
                  /\ state_by_hash(r.blocks, o.hash) = None
                  /\ state_by_number(r.blocks, r.numbers, o.number) = None
                     \/ state_by_number(r.blocks, r.numbers, o.number).block \notin evicted
            /\ \A x \in Range(new) :
                  /\ state_by_hash(r.blocks, x.hash) # None
                  /\ state_by_hash(r.blocks, x.hash).block = x

\* a Reorg has replaced block 2 by its sibling 3: block 2 no longer resolves
\* (the chain kept by its child 4 shows that it was tracked), block 3 does
C1_Witness ==
    /\ last.op = "reorg"
    /\ DOMAIN blocks = {1, 3, 4}
    /\ BlocksOf(chain(blocks[4])) =
          <<ExecutedBlock(1), ExecutedBlock(2), ExecutedBlock(4)>>
    /\ state_by_hash(blocks, 2) = None
    /\ state_by_number(blocks, numbers, 2) = blocks[3]
    /\ blocks[3].parent = blocks[1]

\* C2 as stated: after every Commit of a sequence of Commits from the empty
\* state, head_state() is present and its number is the number of the tip of
\* the committed list (a non-empty list, each block the child of the one
\* before it).
C2_HeadIsCommittedTip ==
    last.commits =>
        \A new \in BlockSeqs(MaxNew) :
            (new # <<>> /\ ParentLinked(new)) =>
                LET r == update_blocks(blocks, numbers, pending, new, <<>>)
                IN  /\ head_state(r.blocks, r.numbers) # None
                    /\ number(head_state(r.blocks, r.numbers)) = tip(new).number

\* C2 amended: in a sequence of Commits from the empty state, after every
\* Commit whose list is a non-empty parent-linked sequence extending the
\* current head (any such sequence when nothing is tracked), head_state() is
\* present and its number is the number of the tip of the committed list.
C2_HeadIsExtendingTip ==
    last.commits =>
        \A new \in BlockSeqs(MaxNew) :
            ExtendsHead(blocks, numbers, new) =>
                LET r == update_blocks(blocks, numbers, pending, new, <<>>)
                IN  /\ head_state(r.blocks, r.numbers) # None
                    /\ number(head_state(r.blocks, r.numbers)) = tip(new).number

\* Commits alone have built the chain 1 <- 2 <- 4 and its head is block 4
C2_Witness ==
    /\ last.op = "commit"
    /\ last.commits
    /\ last.wf
    /\ DOMAIN blocks = {1, 2, 4}
    /\ hash(head_state(blocks, numbers)) = 4

\* C3 as stated: after update_chain(Reorg{new, old}) head_state() resolves to
\* the transition's tip (old a non-empty parent-linked list of tracked blocks,
\* new a non-empty parent-linked list of other blocks that forks where old
\* does).
C3_HeadIsReorgTip ==
    \A new \in BlockSeqs(MaxNew), old \in OldSeqs(MaxOld) :
        (/\ old # <<>> /\ ParentLinked(old)
         /\ \A o \in Range(old) : state_by_hash(blocks, o.hash) # None
         /\ new # <<>> /\ ParentLinked(new)
         /\ Range(new) \cap Range(old) = {}
         /\ new[1].parent_hash = old[1].parent_hash) =>
            LET r == update_blocks(blocks, numbers, pending, new, old)
            IN  /\ head_state(r.blocks, r.numbers) # None
                /\ head_state(r.blocks, r.numbers).block = tip(new)

\* C3 amended: after update_chain(Reorg{new, old}) in which old is the suffix
\* of the head's chain above the fork point and new is a parent-linked
\* sequence extending the fork point, head_state() resolves to the tip.
C3_HeadIsWellFormedReorgTip ==
    \A new \in Paths, old \in Paths :
        WellFormedReorg(blocks, numbers, new, old) =>
            LET r == update_blocks(blocks, numbers, pending, new, old)
            IN  /\ head_state(r.blocks, r.numbers) # None
                /\ head_state(r.blocks, r.numbers).block = tip(new)

\* a well-formed Reorg has made block 3 the head in place of block 2
C3_Witness ==
    /\ last.op = "reorg"
    /\ last.wf
    /\ DOMAIN blocks = {1, 3}
    /\ hash(head_state(blocks, numbers)) = 3

\* C4: after remove_persisted_blocks(h) no block with number <= h resolves by
\* hash or by number, and every block of the chain() of every tracked state
\* has a number > h and is tracked by hash.
C4_PersistedBlocksRemoved ==
    last.op = "remove_persisted_blocks" =>
        /\ \A h \in DOMAIN blocks : number(blocks[h]) > last.height
        /\ \A n \in 0..last.height : state_by_number(blocks, numbers, n) = None
        /\ \A h \in Hashes :
              NumberOf(h) <= last.height => state_by_hash(blocks, h) = None
        /\ \A s \in Tracked :
              \A i \in 1..Len(chain(s)) :
                  /\ number(chain(s)[i]) > last.height
                  /\ state_by_hash(blocks, hash(chain(s)[i])) # None

\* remove_persisted_blocks(1) has evicted block 1 and kept its descendants 2
\* and 4, now linked to each other only
C4_Witness ==
    /\ last.op = "remove_persisted_blocks"
    /\ last.height = 1
    /\ DOMAIN blocks = {2, 4}
    /\ BlocksOf(chain(blocks[4])) = <<ExecutedBlock(2), ExecutedBlock(4)>>

\* C5: every entry number -> hash of the number index has an entry
\* hash -> BlockState in the hash map, and that state's number is the key.
C5_IndexConsistent ==
    \A n \in DOMAIN numbers :
        /\ numbers[n] \in DOMAIN blocks
        /\ hash(blocks[numbers[n]]) = numbers[n]
        /\ number(blocks[numbers[n]]) = n

\* a Reorg has evicted block 2, which was indexed under its number, and the
\* index keeps the entries of the numbers 1 and 3, each for a tracked block
C5_Witness ==
    /\ last.op = "reorg"
    /\ 2 \notin DOMAIN blocks
    /\ DOMAIN numbers = {1, 3}
    /\ 3 \in DOMAIN blocks

\* C6 as stated: the pending block is never in the hash map or the number
\* index.
C6_PendingNotCanonical ==
    pending # None =>
        /\ hash(pending) \notin DOMAIN blocks
        /\ \A n \in DOMAIN numbers : numbers[n] # hash(pending)

\* C6 amended: update_chain and remove_persisted_blocks never put the pending
\* block into the hash map or the number index: when the pending block is in
\* neither before a call, it is in neither after it.
C6_PendingStaysNotCanonical ==
    [][C6_PendingNotCanonical => C6_PendingNotCanonical']_vars

\* a facade built with tracked blocks and a pending block that is not one of
\* them, after a remove_persisted_blocks that kept a block and the pending slot
C6_Witness ==
    /\ last.op = "remove_persisted_blocks"
    /\ pending # None
    /\ DOMAIN blocks # {}
    /\ C6_PendingNotCanonical

\* C7 as stated: the anchor of every tracked state is a block that is not in
\* the hash map.
C7_AnchorNotTracked ==
    \A s \in Tracked : anchor(s).hash \notin DOMAIN blocks

\* C7 amended: in every state reached by well-formed transitions and
\* remove_persisted_blocks calls, the anchor of every tracked state is a block
\* that is not in the hash map.
C7_AnchorNotTrackedWellFormed == last.wf => C7_AnchorNotTracked

\* after well-formed commits and a remove_persisted_blocks(1), blocks 2 and 4
\* are anchored at the evicted block 1
C7_Witness ==
    /\ last.wf
    /\ last.op = "remove_persisted_blocks"
    /\ DOMAIN blocks = {2, 4}
    /\ anchor(blocks[4]) = [number |-> 1, hash |-> 1]
    /\ anchor(blocks[2]) = [number |-> 1, hash |-> 1]

\* C8: chain() of a tracked state is parent_state_chain() followed by the
\* state; its numbers are consecutive and increasing, each element's parent
\* hash is the hash of the element before it, and each element's own parent
\* chain is the part of the chain before it.
C8_ChainOrdered ==
    \A s \in Tracked :
        LET c == chain(s)
        IN  /\ c = parent_state_chain(s) \o <<s>>
            /\ c[Len(c)] = s
            /\ \A i \in 2..Len(c) :
                  /\ number(c[i]) = number(c[i - 1]) + 1
                  /\ c[i].block.parent_hash = hash(c[i - 1])
                  /\ c[i].parent = c[i - 1]
            /\ c[1].parent = None

\* the chain 1 <- 2 <- 4 is tracked, chain() of block 4 having three elements
C8_Witness ==
    /\ 4 \in DOMAIN blocks
    /\ BlocksOf(chain(blocks[4])) =
          <<ExecutedBlock(1), ExecutedBlock(2), ExecutedBlock(4)>>
    /\ BlocksOf(parent_state_chain(blocks[4])) = <<ExecutedBlock(1), ExecutedBlock(2)>>

\* the maps after one single-block Commit per block of a list
RECURSIVE commit_each(_, _, _, _)
commit_each(b, n, p, bs) ==
    IF bs = <<>>
    THEN [blocks |-> b, numbers |-> n, pending |-> p]
    ELSE LET r == update_blocks(b, n, p, <<Head(bs)>>, <<>>)
         IN  commit_each(r.blocks, r.numbers, r.pending, Tail(bs))

\* C9: committing a parent-linked sequence B1..Bk whose first parent is not
\* tracked, in one Commit or in k single-block Commits, leaves chain() of the
\* state tracked under Bi equal to [B1..Bi], for every i.
C9_CommittedChains ==
    \A bs \in Paths :
        bs[1].parent_hash \notin DOMAIN blocks =>
            LET once == update_blocks(blocks, numbers, pending, bs, <<>>)
                each == commit_each(blocks, numbers, pending, bs)
            IN  \A i \in 1..Len(bs) :
                    /\ state_by_hash(once.blocks, bs[i].hash) # None
                    /\ BlocksOf(chain(state_by_hash(once.blocks, bs[i].hash)))
                          = SubSeq(bs, 1, i)
                    /\ state_by_hash(each.blocks, bs[i].hash) # None
                    /\ BlocksOf(chain(state_by_hash(each.blocks, bs[i].hash)))
                          = SubSeq(bs, 1, i)

\* Commits alone, from the empty state, have left chain() of block 4 equal to
\* [1, 2, 4] and chain() of block 1 equal to [1]
C9_Witness ==
    /\ last.op = "commit"
    /\ last.commits
    /\ {1, 2, 4} \subseteq DOMAIN blocks
    /\ BlocksOf(chain(blocks[4])) =
          <<ExecutedBlock(1), ExecutedBlock(2), ExecutedBlock(4)>>
    /\ BlocksOf(chain(blocks[1])) = <<ExecutedBlock(1)>>

\* C10: the in-memory component of state_provider(hash) has one entry per
\* element of chain() of the state tracked under hash, oldest first, each
\* entry's parent hash the hash of the entry before it, the last entry the
\* requested block; it is empty for a hash that is not tracked.
C10_StateProviderChain ==
    \A h \in Hashes \cup {0} :
        LET in_memory == state_provider(blocks, h)
        IN  IF h \in DOMAIN blocks
            THEN /\ Len(in_memory) = Len(chain(blocks[h]))
                 /\ \A i \in 1..Len(in_memory) :
                       in_memory[i] = chain(blocks[h])[i].block
                 /\ \A i \in 2..Len(in_memory) :
                       /\ in_memory[i].parent_hash = in_memory[i - 1].hash
                       /\ in_memory[i].number = in_memory[i - 1].number + 1
                 /\ in_memory[Len(in_memory)] = ExecutedBlock(h)
                 /\ in_memory[Len(in_memory)] = blocks[h].block
            ELSE in_memory = <<>>

\* the chain 1 <- 2 <- 4 is tracked and block 3 is not: the provider of block
\* 4 has the three blocks in order, the provider of block 3 has none
C10_Witness ==
    /\ DOMAIN blocks = {1, 2, 4}
    /\ state_provider(blocks, 4) =
          <<ExecutedBlock(1), ExecutedBlock(2), ExecutedBlock(4)>>
    /\ state_provider(blocks, 3) = <<>>

\* the locks a thread holds
held_locks(t) == {l \in LockNames : holds(t, l)}

\* a mutation between its last lock and its return: in its loops or at
\* pending.take()
in_body(t) ==
    threads[t].pc \in {"remove", "insert", "take", "clear", "drain", "reinsert"}

\* C11: a mutation holds the write locks of a prefix of hash map, number
\* index, pending slot while it takes them, all three from then until it
\* returns, and a mutation that keeps another mutation waiting is itself not
\* waiting for any mutation: concurrent update_chain and
\* remove_persisted_blocks calls never deadlock with one another.
C11_MutationsNeverDeadlock ==
    /\ \A w \in Writers :
          threads[w] # Idle =>
              /\ threads[w].pc = "lock" =>
                    held_locks(w) \in {{}, {"blocks"}, {"blocks", "numbers"}}
              /\ in_body(w) => held_locks(w) = LockNames
              /\ \A l \in held_locks(w) : locks[l] = [writer |-> w, readers |-> {}]
    /\ \A w, u, v \in Writers : waits_for(w, u) => ~waits_for(u, v)

\* a remove_persisted_blocks waits for its first lock while an update_chain
\* that holds all three is in its insertion loop
C11_Witness ==
    \E w, u \in Writers :
        /\ threads[w] # Idle /\ threads[u] # Idle
        /\ threads[w].call.op = "remove_persisted_blocks"
        /\ waits_for(w, u)
        /\ wanted(w) = "blocks"
        /\ is_update_chain(threads[u].call)
        /\ threads[u].pc = "insert"
        /\ held_locks(u) = LockNames

\* C12 as stated: no reachable state has a reader and a writer each waiting
\* for a lock the other holds.
C12_NoReaderWriterDeadlock ==
    \A r \in Readers, w \in Writers : ~(waits_for(r, w) /\ waits_for(w, r))

\* a reader that has returned a state from the hash map
returned_state(r) ==
    /\ threads[r] # Idle
    /\ threads[r].pc = "done"
    /\ threads[r].call.op \in {"state_by_hash", "state_by_number", "head_state"}
    /\ threads[r].result # None

\* C13: every BlockState a reader has got from state_by_hash, state_by_number
\* or head_state was tracked under its hash when the facade was built or when
\* some mutation had been applied in full, it is the state of the hash asked
\* for, and the one state_by_number(n) returns has number n.
C13_NoTornView ==
    \A r \in Readers :
        returned_state(r) =>
            LET th == threads[r]
            IN  /\ \E m \in applied :
                      /\ hash(th.result) \in DOMAIN m
                      /\ m[hash(th.result)] = th.result
                /\ th.call.op = "state_by_hash" => hash(th.result) = th.call.hash
                /\ th.call.op = "state_by_number" => number(th.result) = th.call.number

\* state_by_number has returned a block that a Reorg has evicted since, while
\* another mutation is in its insertion loop
C13_Witness ==
    \E r \in Readers, w, u \in Writers :
        /\ returned_state(r)
        /\ threads[r].call.op = "state_by_number"
        /\ hash(threads[r].result) \notin DOMAIN blocks
        /\ threads[w] # Idle /\ threads[w].pc = "done" /\ threads[w].call.op = "reorg"
        /\ threads[u] # Idle /\ threads[u].pc = "insert"

\* the states one call can leave, run alone on a state
call_outcomes(st, call) ==
    IF is_update_chain(call)
    THEN {update_blocks(st.blocks, st.numbers, st.pending, call.new, call.old)}
    ELSE {[blocks |-> reinsert_blocks(old_blocks).blocks,
           numbers |-> reinsert_blocks(old_blocks).numbers,
           pending |-> st.pending] :
             old_blocks \in sorted_by_number(
                                retained_blocks(st.blocks, call.persisted_height))}

\* the states the calls of the threads of W can leave, run one at a time in
\* any order
RECURSIVE serial_outcomes(_, _)
serial_outcomes(st, W) ==
    IF W = {}
    THEN {st}
    ELSE UNION {UNION {serial_outcomes(next, W \ {w}) :
                          next \in call_outcomes(st, threads[w].call)} : w \in W}

\* the writers that have made a call
called == {w \in Writers : threads[w] # Idle}

\* C14: once every mutation that was issued has returned, the hash map, the
\* number index and the pending slot are what the same calls leave when they
\* run one at a time in some order.
C14_MutationsSerialized ==
    (\A w \in called : threads[w].pc = "done") =>
        [blocks |-> blocks, numbers |-> numbers, pending |-> pending]
            \in serial_outcomes(initial, called)

\* a Commit of block 2 and a Reorg from block 2 to block 3 have both returned,
\* the Commit last: the other order would have left block 3 alone
C14_Witness ==
    /\ called = Writers
    /\ \A w \in Writers : threads[w].pc = "done"
    /\ \E w, u \in Writers :
          /\ threads[w].call = [op |-> "commit", new |-> <<ExecutedBlock(2)>>, old |-> <<>>]
          /\ threads[u].call = [op |-> "reorg", new |-> <<ExecutedBlock(3)>>,
                                old |-> <<ExecutedBlock(2)>>]
    /\ DOMAIN initial.blocks = {1}
    /\ DOMAIN blocks = {1, 2, 3}
    /\ numbers[2] = 2

\* C15 as stated: state_by_number takes its two locks independently, the
\* number index first and the hash map after it has let go of the number
\* index, so that a mutation can take effect between its two reads.
C15_IndependentAcquisitions ==
    \A r \in Readers :
        (/\ threads[r] # Idle
         /\ threads[r].call.op = "state_by_number"
         /\ threads[r].pc \in {"lock_blocks", "get_block"}) =>
            ~holds(r, "numbers")

\* C16 as stated: a head_state scan is not serialized with the mutations: it
\* holds no lock on the number index when it goes on to the hash map, so that
\* a mutation can change the hash map after the scan.
C16_HeadStateNotSerialized ==
    \A r \in Readers :
        (/\ threads[r] # Idle
         /\ threads[r].call.op = "head_state"
         /\ threads[r].pc \in {"lock_blocks", "get_block"}) =>
            ~holds(r, "numbers")

\* C17: update_chain clears the pending slot whatever it is given: on the
\* facade as built, any Commit or Reorg (any lists, the pending block among
\* them or not) leaves a slot of which pending_state() is None, and from
\* pending.take() on, in every concurrent run, pending_state() is None.
C17_UpdateChainClearsPending ==
    /\ (\A t \in Threads : threads[t] = Idle) =>
          \A new \in BlockSeqs(MaxNew), old \in OldSeqs(MaxOld) :
              pending_state(update_blocks(blocks, numbers, pending, new, old).pending)
                  = None
    /\ \A w \in Writers :
          (/\ threads[w] # Idle
           /\ is_update_chain(threads[w].call)
           /\ threads[w].pc \in {"unlock", "done"}) =>
              /\ pending = None
              /\ pending_state(pending) = None

\* the facade was built with a pending block, a Commit of that very block has
\* returned, and the slot is empty
C17_Witness ==
    /\ initial # None
    /\ initial.pending # None
    /\ \E w \in Writers :
          /\ threads[w] # Idle
          /\ threads[w].pc = "done"
          /\ threads[w].call = [op |-> "commit", new |-> <<initial.pending.block>>,
                                old |-> <<>>]
    /\ hash(initial.pending) \in DOMAIN blocks
    /\ pending_state(pending) = None

\* C18: the step of pending_state() that reads the slot leaves the slot as it
\* is and returns None for an empty slot and otherwise a state of the pending
\* block (same block, hash and number) built from the block alone: it has no
\* parent, its parent_state_chain() is empty, its chain() is itself, it is not
\* the stored state when that has a parent, and no tracked state is in its
\* lineage.
C18_PendingStateFreshRoot ==
    [][\A r \in Readers :
          (threads[r].pc = "get_pending" /\ threads'[r].pc = "done") =>
              /\ pending' = pending
              /\ pending = None => threads'[r].result = None
              /\ pending # None =>
                    LET state == threads'[r].result
                    IN  /\ state # None
                        /\ state.block = pending.block
                        /\ hash(state) = hash(pending)
                        /\ number(state) = number(pending)
                        /\ state.parent = None
                        /\ parent_state_chain(state) = <<>>
                        /\ chain(state) = <<state>>
                        /\ pending.parent # None => state # pending
                        /\ \A c \in Tracked :
                              \A i \in 1..Len(parent_state_chain(state)) :
                                  parent_state_chain(state)[i] # c]_vars

\* pending_state() has returned a root state of a pending block that is
\* stored with a parent, the parent being tracked, and the slot still holds
\* the stored state
C18_Witness ==
    \E r \in Readers :
        /\ threads[r] # Idle
        /\ threads[r].call.op = "pending_state"
        /\ threads[r].pc = "done"
        /\ threads[r].result # None
        /\ pending # None
        /\ pending.parent # None
        /\ hash(pending.parent) \in DOMAIN blocks
        /\ threads[r].result = BlockState_new(pending.block)

\* C19 as stated: once a transition has been applied the canonical head of
\* the ChainInfoTracker is the transition's tip (the block of head_state(),
\* the transition being well formed) and every subscriber has a notification.
C19_TransitionAdvancesHeadAndNotifies ==
    last.op \in {"commit", "reorg"} =>
        /\ canonical_head = head_state(blocks, numbers).block
        /\ \A s \in DOMAIN receivers : receivers[s] # <<>>

\* C19 amended: update_chain changes the in-memory state only; the canonical
\* head changes by set_canonical_head alone and becomes the header given, and
\* a notification reaches the subscribers by notify_canon_state alone, which
\* queues the same event for every subscribed receiver.
C19_CallerAdvancesHeadAndNotifies ==
    [][/\ last'.op \in {"commit", "reorg"} =>
             UNCHANGED <<canonical_head, receivers>>
       /\ last'.op = "set_canonical_head" =>
             /\ canonical_head' = last'.header
             /\ UNCHANGED <<blocks, numbers, pending, receivers>>
       /\ last'.op = "notify_canon_state" =>
             /\ \E new_chain \in FlowChains :
                   /\ DOMAIN receivers' = DOMAIN receivers
                   /\ \A s \in DOMAIN receivers :
                         receivers'[s] =
                             Append(receivers[s], to_chain_notification(new_chain))
             /\ UNCHANGED <<blocks, numbers, pending, canonical_head>>
       /\ last'.op = "subscribe_canon_state" =>
             UNCHANGED <<blocks, numbers, pending, canonical_head>>]_vars

\* the chain 1 <- 2 has been committed, the canonical head set to block 2 and
\* both subscribers notified of a Commit ending in block 2
C19_Witness ==
    /\ DOMAIN blocks = {1, 2}
    /\ hash(head_state(blocks, numbers)) = 2
    /\ canonical_head = ExecutedBlock(2)
    /\ DOMAIN receivers = Subscribers
    /\ \A s \in Subscribers :
          /\ Len(receivers[s]) = 1
          /\ receivers[s][1].event = "Commit"
          /\ receivers[s][1].new.blocks[Len(receivers[s][1].new.blocks)].block
                = ExecutedBlock(2)

\* the Chain c holds every block of the list with its senders, in order, and
\* the execution outcome of the last block of the list and of no other
holds_chain(c, list) ==
    /\ Len(c.blocks) = Len(list)
    /\ \A i \in 1..Len(list) :
          /\ c.blocks[i].block = list[i]
          /\ c.blocks[i].senders = senders(list[i])
    /\ c.execution_outcome = execution_output(list[Len(list)])
    /\ \A i \in 1..(Len(list) - 1) : c.execution_outcome # execution_output(list[i])

\* the chains of a notification
chains_of(event) ==
    IF event.event = "Commit" THEN {event.new} ELSE {event.new, event.old}

\* C20: to_chain_notification() of Commit{new} is a Commit event of one chain
\* and of Reorg{new, old} a Reorg event of two, each chain holding every block
\* of its list with its senders, in order, and the execution outcome of the
\* last block of its list only; so does every notification a receiver holds.
C20_NotificationChains ==
    /\ \A new_chain \in FlowChains :
          LET event == to_chain_notification(new_chain)
          IN  IF new_chain.op = "commit"
              THEN /\ event.event = "Commit"
                   /\ DOMAIN event = {"event", "new"}
                   /\ holds_chain(event.new, new_chain.new)
              ELSE /\ event.event = "Reorg"
                   /\ DOMAIN event = {"event", "new", "old"}
                   /\ holds_chain(event.new, new_chain.new)
                   /\ holds_chain(event.old, new_chain.old)
    /\ \A s \in DOMAIN receivers :
          \A i \in 1..Len(receivers[s]) :
              \A c \in chains_of(receivers[s][i]) :
                  holds_chain(c, [j \in 1..Len(c.blocks) |-> c.blocks[j].block])

\* a receiver holds the notification of Reorg{new: [2, 4], old: [3]}: two
\* chains, the new one with blocks 2 and 4 and the outcome of block 4
C20_Witness ==
    \E s \in DOMAIN receivers :
        receivers[s] =
            <<[event |-> "Reorg",
               new |-> [blocks |-> <<[block |-> ExecutedBlock(2),
                                      senders |-> [senders_of |-> 2]],
                                     [block |-> ExecutedBlock(4),
                                      senders |-> [senders_of |-> 4]]>>,
                        execution_outcome |-> [outcome_of |-> 4],
                        trie_updates |-> None],
               old |-> [blocks |-> <<[block |-> ExecutedBlock(3),
                                      senders |-> [senders_of |-> 3]]>>,
                        execution_outcome |-> [outcome_of |-> 3],
                        trie_updates |-> None]]>>

\* C21: notify_canon_state returns for every event whether or not a receiver
\* is attached, and the call leaves the hash map, the number index, the pending
\* slot and the canonical head as they were; with no receiver attached it
\* leaves the channel as it was too.
C21_NotifyNeverFailsNorChanges ==
    /\ [](DOMAIN receivers = {} =>
             \A new_chain \in FlowChains : ENABLED NotifyCanonState(new_chain))
    /\ [][last'.op = "notify_canon_state" =>
             /\ UNCHANGED <<blocks, numbers, pending, canonical_head>>
             /\ DOMAIN receivers' = DOMAIN receivers
             /\ DOMAIN receivers = {} => UNCHANGED receivers]_vars

\* a notification was sent with no receiver attached, on a facade that tracks
\* blocks and whose canonical head was set
C21_Witness ==
    /\ last.op = "notify_canon_state"
    /\ receivers = EmptyMap
    /\ blocks # EmptyMap
    /\ canonical_head # AsConstructed

\* the least of two numbers
Min(a, b) == IF a < b THEN a ELSE b

\* C22: the unread notifications of every receiver are the ones sent after the
\* one it read last (or after it subscribed), in send order and each once, less
\* the oldest ones beyond the capacity of the channel (256); a receiver reads
\* the next one sent or is told how many it lost, whatever the other receivers
\* have read, and the sender goes on.
C22_DeliveryInOrderAtMostOnce ==
    /\ [](\A s \in DOMAIN receivers :
             LET n == Len(stamps[s])
             IN  /\ n = Len(receivers[s])
                 /\ n = Min(CANON_STATE_NOTIFICATION_CHANNEL_SIZE, sent - received[s])
                 /\ \A i \in 1..n : stamps[s][i] = sent - n + i)
    /\ [][last'.op = "recv" =>
             LET s == last'.subscriber
             IN  /\ received'[s] > received[s]
                 /\ \A u \in DOMAIN receivers \ {s} :
                       /\ receivers'[u] = receivers[u]
                       /\ received'[u] = received[u]
                 /\ IF Len(stamps[s]) = sent - received[s]
                    THEN /\ last'.result = [ok |-> Head(receivers[s])]
                         /\ received'[s] = received[s] + 1
                    ELSE /\ last'.result =
                               [lagged |-> sent - received[s]
                                              - CANON_STATE_NOTIFICATION_CHANNEL_SIZE]
                         /\ received'[s] = sent - CANON_STATE_NOTIFICATION_CHANNEL_SIZE]_vars

\* one receiver has read nothing of more notifications than the channel
\* holds and has lost the oldest, the other one has read them all
C22_Witness ==
    /\ DOMAIN receivers = Subscribers
    /\ \E s \in Subscribers :
          /\ received[s] = 0
          /\ Len(receivers[s]) = CANON_STATE_NOTIFICATION_CHANNEL_SIZE
          /\ Head(stamps[s]) = 2
    /\ \E u \in Subscribers :
          /\ received[u] = sent
          /\ receivers[u] = <<>>

\* C23: in every state and for every list new, update_chain(Commit{new}) and
\* update_chain(Reorg{new, old: []}) leave the same hash map, number index and
\* pending slot.
C23_CommitIsReorgWithoutOld ==
    \A new \in BlockSeqs(MaxNew) :
        update_chain(blocks, numbers, pending, [op |-> "commit", new |-> new])
            = update_chain(blocks, numbers, pending,
                           [op |-> "reorg", new |-> new, old |-> <<>>])

\* a facade that tracks blocks and holds a pending block, on which a
\* Reorg{new, old: []} changes both maps and clears the slot
C23_Witness ==
    /\ blocks # EmptyMap
    /\ pending # None
    /\ \E new \in BlockSeqs(MaxNew) :
          LET r == update_chain(blocks, numbers, pending,
                                [op |-> "reorg", new |-> new, old |-> <<>>])
          IN  /\ r.blocks # blocks
              /\ r.numbers # numbers
              /\ r.pending = None

\* the tracked blocks the number index does not lead to
Orphans(b, n) ==
    {h \in DOMAIN b : number(b[h]) \notin DOMAIN n \/ n[number(b[h])] # h}

\* C24: when update_chain inserts blocks at a number that is tracked under
\* another hash, the block of that hash not being listed in old, the index
\* entry of the number becomes the hash of the last block inserted at it and
\* the earlier block stays resolvable by hash, with the state it had; and a
\* tracked block the index does not lead to stays resolvable by hash through
\* every Commit and every prune below its number: only a Reorg or a prune at
\* or above its number evicts it.
C24_OverwrittenNumberKeepsHash ==
    /\ [](\A new \in BlockSeqs(MaxNew), old \in OldSeqs(MaxOld), num \in DOMAIN numbers :
             LET h == numbers[num]
                 at_num == {i \in 1..Len(new) : new[i].number = num}
                 r == update_chain(blocks, numbers, pending,
                                   [op |-> "reorg", new |-> new, old |-> old])
             IN  (/\ at_num # {}
                  /\ \A i \in at_num : new[i].hash # h
                  /\ blocks[h].block \notin Range(old))
                 => /\ \E i \in at_num :
                          /\ \A j \in at_num : j <= i
                          /\ r.numbers[num] = new[i].hash
                    /\ r.numbers[num] # h
                    /\ state_by_hash(r.blocks, h) = blocks[h])
    /\ [][\A h \in Orphans(blocks, numbers) :
             /\ last'.op = "commit" => state_by_hash(blocks', h) # None
             /\ last'.op = "remove_persisted_blocks" =>
                   (state_by_hash(blocks', h) # None
                       <=> number(blocks[h]) > last'.height)]_vars

\* block 3 was committed at number 2 over block 2: the index leads to block 3
\* and block 2 is still resolvable by hash
C24_Witness ==
    /\ last.op = "commit"
    /\ 2 \in DOMAIN numbers
    /\ numbers[2] = 3
    /\ state_by_hash(blocks, 2) # None
    /\ 2 \in Orphans(blocks, numbers)

\* head_state() is absent exactly when no block is tracked, and otherwise no
\* tracked block has a greater number
head_is_greatest(b, n) ==
    /\ head_state(b, n) = None <=> b = EmptyMap
    /\ head_state(b, n) # None =>
          \A h \in DOMAIN b : number(b[h]) <= number(head_state(b, n))

\* C25 as stated: in every state reached by any calls of update_chain and
\* remove_persisted_blocks, head_state() is None exactly when the hash map
\* tracks no block and otherwise has the greatest number of the tracked blocks.
C25_HeadIsGreatestTracked == head_is_greatest(blocks, numbers)

\* C25 amended: in every state reached by well-formed transitions (a Commit
\* extending the head, a Reorg evicting the tracked suffix above its fork
\* point) and prunes, head_state() is None exactly when the hash map tracks no
\* block and otherwise has the greatest number of the tracked blocks.
C25_HeadIsGreatestTrackedWellFormed == last.wf => head_is_greatest(blocks, numbers)

\* well-formed transitions and a prune have left the blocks 2 and 4 of the
\* chain 1 <- 2 <- 4, and the head is block 4
C25_Witness ==
    /\ last.wf
    /\ last.op = "remove_persisted_blocks"
    /\ DOMAIN blocks = {2, 4}
    /\ hash(head_state(blocks, numbers)) = 4

\* the block of new at position i has its parent listed in old, and no
\* earlier block of new is that parent
parent_evicted(new, old, i) ==
    /\ \E j \in 1..Len(old) : old[j].hash = new[i].parent_hash
    /\ \A j \in 1..(i - 1) : new[j].hash # new[i].parent_hash

\* C26 as stated: after update_chain(Reorg{new, old}) a block listed in both
\* old and new is tracked by hash and by number, and a block of new whose
\* parent is listed in old and is not an earlier block of new has no in-memory
\* parent.
C26_RemovalBeforeInsertion ==
    last.op = "reorg" =>
        LET new == last.new_chain.new
            old == last.new_chain.old
        IN  /\ \A x \in Range(old) \cap Range(new) :
                  /\ state_by_hash(blocks, x.hash) # None
                  /\ state_by_number(blocks, numbers, x.number) # None
                  /\ state_by_number(blocks, numbers, x.number).block = x
            /\ \A i \in 1..Len(new) :
                  parent_evicted(new, old, i) => blocks[new[i].hash].parent = None

\* C26 amended: after update_chain(Reorg{new, old}) a block listed in both old
\* and new is tracked by hash, and by number when no later block of new has
\* its number (the number then leads to the last block of new that has it);
\* a block of new whose parent is listed in old and is not an earlier block of
\* new has no in-memory parent.
C26_RemovalBeforeInsertionLastAtNumber ==
    last.op = "reorg" =>
        LET new == last.new_chain.new
            old == last.new_chain.old
        IN  /\ \A i \in 1..Len(new) :
                  new[i] \in Range(old) =>
                      /\ state_by_hash(blocks, new[i].hash) # None
                      /\ state_by_hash(blocks, new[i].hash).block = new[i]
                      /\ state_by_number(blocks, numbers, new[i].number) # None
                      /\ (\A j \in (i + 1)..Len(new) : new[j].number # new[i].number)
                         => state_by_number(blocks, numbers, new[i].number).block
                                = new[i]
            /\ \A i \in 1..Len(new) :
                  parent_evicted(new, old, i) => blocks[new[i].hash].parent = None

\* blocks 1 and 2 were tracked, block 2 linked to block 1, and Reorg{new: [2],
\* old: [1]} has left block 2 tracked by hash and by number, without an
\* in-memory parent
C26_Witness ==
    /\ last.op = "reorg"
    /\ last.new_chain.new = <<ExecutedBlock(2)>>
    /\ last.new_chain.old = <<ExecutedBlock(1)>>
    /\ DOMAIN initial.blocks = {1, 2}
    /\ initial.blocks[2].parent = initial.blocks[1]
    /\ DOMAIN blocks = {2}
    /\ numbers[2] = 2
    /\ blocks[2].parent = None

\* C27: every update_chain leaves the pending slot empty, and no call of
\* update_chain or remove_persisted_blocks fills an empty slot: once
\* pending_state() returns None it returns None after every later call.
C27_NoPathBackToPending ==
    [][/\ last'.op \in {"commit", "reorg"} => pending_state(pending') = None
       /\ pending_state(pending) = None => pending_state(pending') = None]_vars

\* blocks were committed, which cleared the slot, a prune followed and
\* pending_state() returns None
C27_Witness ==
    /\ last.op = "remove_persisted_blocks"
    /\ blocks # EmptyMap
    /\ pending_state(pending) = None

\* C28: on a facade whose pending slot is empty some call records a block in
\* the slot, after which pending_state() returns that block.
C28_AbsentToPending ==
    pending = None => ENABLED (Next /\ pending_state(pending') # None)

\* the hash map and the number index without the entries of the blocks of old
without_old(b, n, old) ==
    [blocks |-> [h \in DOMAIN b \ {x.hash : x \in Range(old)} |-> b[h]],
     numbers |-> [k \in DOMAIN n \ {x.number : x \in Range(old)} |-> n[k]]]

\* tip() is the last block of a non-empty new and a panic on an empty one, and
\* to_chain_notification() panics on an empty new and, for a Reorg, on an
\* empty old, and returns an event otherwise
tip_and_notification_abort(new_chain) ==
    /\ new_chain.new # <<>> => tip(new_chain.new) = new_chain.new[Len(new_chain.new)]
    /\ new_chain.new = <<>> => tip(new_chain.new) = Panic
    /\ to_chain_notification(new_chain) = Panic
          <=> \/ new_chain.new = <<>>
              \/ new_chain.op = "reorg" /\ new_chain.old = <<>>

\* C29 as stated: tip() is the last block of a non-empty new, tip() and
\* to_chain_notification() abort on an empty new (to_chain_notification on a
\* Reorg with an empty old too), and update_chain of a transition with an
\* empty new only clears the pending slot.
C29_EmptyListsAbortOrOnlyClear ==
    last.op \in {"commit", "reorg"} =>
        /\ tip_and_notification_abort(last.new_chain)
        /\ last.new_chain.new = <<>> =>
              /\ blocks = initial.blocks
              /\ numbers = initial.numbers
              /\ pending = None

\* C29 amended: tip() is the last block of a non-empty new, tip() and
\* to_chain_notification() abort on an empty new (to_chain_notification on a
\* Reorg with an empty old too), and update_chain accepts such a transition
\* and applies it as any other: it clears the pending slot, with an empty new
\* it removes the entries of old (none for a Commit), and with an empty old
\* it inserts new.
C29_EmptyListsAbortOrApply ==
    last.op \in {"commit", "reorg"} =>
        LET new == last.new_chain.new
            old == IF last.op = "commit" THEN <<>> ELSE last.new_chain.old
        IN  /\ tip_and_notification_abort(last.new_chain)
            /\ pending = None
            /\ new = <<>> =>
                  /\ blocks = without_old(initial.blocks, initial.numbers, old).blocks
                  /\ numbers = without_old(initial.blocks, initial.numbers, old).numbers
            /\ (old = <<>> /\ new # <<>>) =>
                  /\ \A x \in Range(new) : state_by_hash(blocks, x.hash) # None
                  /\ \A h \in DOMAIN initial.blocks : state_by_hash(blocks, h) # None
                  /\ state_by_number(blocks, numbers, tip(new).number) # None
                  /\ state_by_number(blocks, numbers, tip(new).number).block = tip(new)

\* update_chain(Reorg{new: [], old: [block 2]}) has evicted block 2 from a
\* facade that tracked the blocks 1 and 2 and held a pending block, while
\* tip() and to_chain_notification() of that transition panic
C29_Witness ==
    /\ last.op = "reorg"
    /\ last.new_chain.new = <<>>
    /\ last.new_chain.old = <<ExecutedBlock(2)>>
    /\ DOMAIN initial.blocks = {1, 2}
    /\ initial.pending # None
    /\ DOMAIN blocks = {1}
    /\ pending = None
    /\ tip(last.new_chain.new) = Panic
    /\ to_chain_notification(last.new_chain) = Panic

\* C30: executed_block_receipts() returns the present receipts of the block in
\* their order when the outcome carries one block's worth of receipts and an
\* empty list when it carries none, and an outcome carrying more than one
\* block's worth is flagged: the call does not return a list.
C30_ReceiptsOfOneBlockOrFlagged ==
    returned # None =>
        /\ Len(receipt_vec) = 0 => returned = [ok |-> <<>>]
        /\ Len(receipt_vec) = 1 =>
              /\ "ok" \in DOMAIN returned
              /\ \A i \in 1..Len(returned.ok) : returned.ok[i] \in ReceiptSlots \ {None}
              /\ returned.ok
                    = SelectSeq(receipt_vec[1], LAMBDA slot : slot # None)
        /\ Len(receipt_vec) > 1 => returned = Panic

\* C31: the anchor of every tracked state is the parent pointer (number - 1,
\* parent hash) of the oldest element of its chain(), and after a Commit of a
\* parent-linked list whose first block's parent was not tracked, every block
\* of the list is anchored at the parent of the first block of the list.
C31_AnchorIsParentOfOldest ==
    /\ \A s \in Tracked :
          anchor(s) = [number |-> number(chain(s)[1]) - 1,
                       hash |-> chain(s)[1].block.parent_hash]
    /\ (/\ last.op = "commit"
        /\ ParentLinked(last.new_chain.new)
        /\ last.new_chain.new # <<>>
        /\ last.new_chain.new[1].parent_hash \notin DOMAIN initial.blocks)
       => \A i \in 1..Len(last.new_chain.new) :
             LET B == last.new_chain.new
             IN  /\ B[i].hash \in DOMAIN blocks
                 /\ anchor(blocks[B[i].hash])
                       = [number |-> B[1].number - 1, hash |-> B[1].parent_hash]

\* blocks 2 and 4 were committed as one list onto a facade that does not track
\* block 1: both are anchored at block 1
C31_Witness ==
    /\ last.op = "commit"
    /\ last.new_chain.new = <<ExecutedBlock(2), ExecutedBlock(4)>>
    /\ 1 \notin DOMAIN initial.blocks
    /\ Len(chain(blocks[4])) = 2
    /\ anchor(blocks[4]) = [number |-> 1, hash |-> 1]
    /\ anchor(blocks[2]) = [number |-> 1, hash |-> 1]

\* C32: remove_persisted_blocks(h) retains exactly the tracked blocks with a
\* number > h: each of them still resolves by hash to the same ExecutedBlock,
\* no block with a number <= h and no block that was not tracked resolves, and
\* the keys of the number index are exactly the numbers of the retained blocks.
C32_RetainsExactlyAbove ==
    last.op = "remove_persisted_blocks" =>
        LET before == last.before.blocks
        IN  /\ \A k \in DOMAIN before :
                  IF number(before[k]) > last.height
                  THEN /\ state_by_hash(blocks, k) # None
                       /\ state_by_hash(blocks, k).block = before[k].block
                  ELSE state_by_hash(blocks, k) = None
            /\ DOMAIN blocks \subseteq DOMAIN before
            /\ DOMAIN numbers
                  = {number(before[k]) :
                        k \in {x \in DOMAIN before : number(before[x]) > last.height}}

\* remove_persisted_blocks(1) on a facade tracking the blocks 1, 2 and 3 has
\* kept 2 and 3, both of number 2
C32_Witness ==
    /\ last.op = "remove_persisted_blocks"
    /\ last.height = 1
    /\ DOMAIN last.before.blocks = {1, 2, 3}
    /\ DOMAIN blocks = {2, 3}
    /\ DOMAIN numbers = {2}

\* C33: when the tracked blocks are one parent-linked chain of the numbers
\* a+1..t and remove_persisted_blocks(h) is called with a <= h < t, every
\* surviving state is anchored at the (number, hash) of the block of number h,
\* and chain() of the state of number n is the blocks h+1..n of the chain.
C33_SurvivorsAnchoredAtThreshold ==
    last.op = "remove_persisted_blocks" =>
        \A p \in Paths :
            LET a == p[1].number - 1
                t == p[Len(p)].number
                h == last.height
                at_h == IF h = a
                        THEN [number |-> a, hash |-> p[1].parent_hash]
                        ELSE [number |-> h, hash |-> p[h - a].hash]
            IN  (/\ {last.before.blocks[k].block : k \in DOMAIN last.before.blocks}
                       = Range(p)
                 /\ a <= h
                 /\ h < t)
                => /\ DOMAIN blocks = {p[i].hash : i \in (h - a + 1)..Len(p)}
                   /\ \A s \in Tracked :
                         /\ anchor(s) = at_h
                         /\ BlocksOf(chain(s))
                               = SubSeq(p, h - a + 1, number(s) - a)

\* remove_persisted_blocks(1) on the chain 1, 2, 4 has left 2 and 4, both
\* anchored at block 1, and chain() of block 4 is the blocks 2 and 4
C33_Witness ==
    /\ last.op = "remove_persisted_blocks"
    /\ last.height = 1
    /\ DOMAIN last.before.blocks = {1, 2, 4}
    /\ DOMAIN blocks = {2, 4}
    /\ anchor(blocks[2]) = [number |-> 1, hash |-> 1]
    /\ anchor(blocks[4]) = [number |-> 1, hash |-> 1]
    /\ BlocksOf(chain(blocks[4])) = <<ExecutedBlock(2), ExecutedBlock(4)>>

\* C34: in every state reached from the empty facade by well-formed Commits
\* and Reorgs and by remove_persisted_blocks calls, the number index and the
\* hash map correspond one to one, the tracked numbers are consecutive, and
\* chain() of head_state() is exactly the tracked states.
C34_WellFormedChain ==
    last.wf =>
        /\ \A n \in DOMAIN numbers :
              /\ numbers[n] \in DOMAIN blocks
              /\ number(blocks[numbers[n]]) = n
        /\ \A h \in DOMAIN blocks :
              /\ number(blocks[h]) \in DOMAIN numbers
              /\ numbers[number(blocks[h])] = h
        /\ \A x, y \in DOMAIN numbers :
              \A n \in x..y : n \in DOMAIN numbers
        /\ IF head_state(blocks, numbers) = None
           THEN DOMAIN blocks = {}
           ELSE LET c == chain(head_state(blocks, numbers))
                IN  /\ {c[i] : i \in 1..Len(c)} = Tracked
                    /\ Len(c) = Cardinality(DOMAIN blocks)

\* a well-formed Reorg has replaced block 2 by block 3 on top of block 1: the
\* head is block 3 and its chain is the two tracked states
C34_Witness ==
    /\ last.wf
    /\ last.op = "reorg"
    /\ DOMAIN blocks = {1, 3}
    /\ DOMAIN numbers = {1, 2}
    /\ BlocksOf(chain(head_state(blocks, numbers)))
          = <<ExecutedBlock(1), ExecutedBlock(3)>>

\* C35: on a facade in which no two tracked blocks share a number, a row of
\* remove_persisted_blocks calls leaves the hash map (parent chains included)
\* and the number index that a single call with the greatest of the
\* thresholds leaves; calling it twice with one threshold is calling it once.
C35_IdempotentAndMonotone ==
    (/\ Len(last.heights) >= 2
     /\ \A x, y \in DOMAIN initial.blocks :
           number(initial.blocks[x]) = number(initial.blocks[y]) => x = y)
    => LET greatest == CHOOSE h \in Range(last.heights) :
                           \A k \in Range(last.heights) : k <= h
       IN  \A r \in remove_persisted_blocks(initial.blocks, initial.numbers,
                                            initial.pending, greatest) :
               /\ blocks = r.blocks
               /\ numbers = r.numbers
               /\ \A h \in DOMAIN blocks :
                     parent_state_chain(blocks[h])
                        = parent_state_chain(r.blocks[h])

\* remove_persisted_blocks(2) and then remove_persisted_blocks(1) on the chain
\* 1, 2, 4 have left block 4 alone, without a parent
C35_Witness ==
    /\ last.heights = <<2, 1>>
    /\ DOMAIN initial.blocks = {1, 2, 4}
    /\ DOMAIN blocks = {4}
    /\ blocks[4].parent = None
    /\ numbers = MapInsert(EmptyMap, 3, 4)

\* C36: update_chain leaves every tracked block that is listed neither in old
\* nor in new as it was in the hash map: the same ExecutedBlock with the same
\* stored parent chain, also when a block of that chain was evicted.
C36_UnlistedBlocksUntouched ==
    last.op \in {"commit", "reorg"} =>
        LET listed == Range(last.new_chain.new)
                         \cup (IF last.op = "reorg"
                               THEN Range(last.new_chain.old)
                               ELSE {})
        IN  \A h \in DOMAIN initial.blocks :
                initial.blocks[h].block \notin listed
                => /\ state_by_hash(blocks, h) # None
                   /\ state_by_hash(blocks, h).block = initial.blocks[h].block
                   /\ parent_state_chain(state_by_hash(blocks, h))
                         = parent_state_chain(initial.blocks[h])

\* update_chain(Reorg{new: [block 3], old: [block 1]}) on the chain 1, 2 has
\* evicted block 1, and block 2 still carries it as its parent
C36_Witness ==
    /\ last.op = "reorg"
    /\ last.new_chain.new = <<ExecutedBlock(3)>>
    /\ last.new_chain.old = <<ExecutedBlock(1)>>
    /\ DOMAIN initial.blocks = {1, 2}
    /\ initial.blocks[2].parent # None
    /\ DOMAIN blocks = {2, 3}
    /\ BlocksOf(parent_state_chain(blocks[2])) = <<ExecutedBlock(1)>>

\* C37: remove_persisted_blocks leaves the pending slot as it found it, for
\* every threshold: pending_state() returns after the call what it returned
\* before it, a pending block or nothing.
C37_PendingKeptByRemovePersisted ==
    last.op = "remove_persisted_blocks" =>
        /\ pending = last.before.pending
        /\ pending_state(pending) = pending_state(last.before.pending)
        /\ pending_state(pending) = pending_state(initial.pending)

\* remove_persisted_blocks(3) has evicted every tracked block of a facade
\* holding a pending block, and the pending block is still returned
C37_Witness ==
    /\ last.op = "remove_persisted_blocks"
    /\ last.height = MaxNumber
    /\ DOMAIN last.before.blocks # {}
    /\ DOMAIN blocks = {}
    /\ last.before.pending # None
    /\ pending_state(pending) = BlockState_new(last.before.pending.block)

\* C38: the chain-info calls of the facade are forwarded to the tracker only:
\* set_canonical_head, set_safe, set_finalized and the two hooks leave the
\* hash map, the number index and the pending slot as they were, the
\* canonical head after set_canonical_head(x) is x, and update_chain
\* and remove_persisted_blocks leave the canonical, safe and finalized heads
\* as they were.
C38_ChainInfoOnlyForwarded ==
    [][/\ last'.op \in {"set_canonical_head", "set_safe", "set_finalized",
                        "on_forkchoice_update_received",
                        "on_transition_configuration_exchanged"}
          => UNCHANGED <<blocks, numbers, pending>>
       /\ last'.op = "set_canonical_head"
          => canonical_head' = last'.header
       /\ last'.op \in {"commit", "reorg", "remove_persisted_blocks"}
          => /\ canonical_head' = canonical_head
             /\ chain_info'.safe = chain_info.safe
             /\ chain_info'.finalized = chain_info.finalized]_vars

\* the three heads were set to block 1 while the facade tracked it, and a
\* remove_persisted_blocks(1) has then emptied the facade and left the heads
C38_Witness ==
    /\ last.op = "remove_persisted_blocks"
    /\ last.height = 1
    /\ DOMAIN blocks = {}
    /\ canonical_head = ExecutedBlock(1)
    /\ chain_info.safe = ExecutedBlock(1)
    /\ chain_info.finalized = ExecutedBlock(1)
    /\ chain_info.last_forkchoice_update # None

\* C39: poll_next yields no peer while the network is syncing; when it is not
\* syncing and the queue is not empty, it yields the front of the queue and
\* leaves the rest in order, without scanning; the scan runs only on an empty
\* queue, and the queue never holds a peer twice.
C39_QueueDrainedBeforeScan ==
    /\ \A i, j \in 1..Len(inactive_peers) :
          i # j => inactive_peers[i] # inactive_peers[j]
    /\ last.op = "poll_next" =>
          /\ is_syncing =>
                /\ last.result = Poll_Pending
                /\ inactive_peers = last.queue
                /\ ~last.scanned
          /\ (~is_syncing /\ last.queue # <<>>) =>
                /\ last.result = [ready |-> Head(last.queue)]
                /\ inactive_peers = Tail(last.queue)
                /\ ~last.scanned
          /\ (~is_syncing /\ last.queue = <<>>) => last.result = Poll_Pending
          /\ last.scanned => last.queue = <<>>

\* both peers were queued by one scan, and a poll has yielded the front one
\* and left the other
C39_Witness ==
    /\ last.op = "poll_next"
    /\ ~is_syncing
    /\ last.queue = <<"p2", "p1">>
    /\ last.result = [ready |-> "p2"]
    /\ inactive_peers = <<"p1">>

\* C40: only tracked peers are reported: poll_next yields no peer whose last
\* tracking call was stop_tracking, and track_activity on a peer that is not
\* tracked does not start tracking it.
C40_OnlyTrackedPeersReported ==
    /\ (last.op = "poll_next" /\ "ready" \in DOMAIN last.result)
       => last.result.ready \notin last.stopped
    /\ (last.op = "track_activity" /\ last.peer \notin last.tracked)
       => last.peer \notin DOMAIN last_activity

====
